---- MODULE Spec2Model ----
(***************************************************************************)
(* Model of the BOE digest application: the JSON tree scanners, the topic  *)
(* classifier, the digest renderer and the digest orchestrator of          *)
(* boe_digest.py, and the limited scanners of app.py and the chat page.    *)
(*                                                                         *)
(* Text is modelled character by character: a Python str is a sequence of  *)
(* one-character strings.  An accented letter is one element written as    *)
(* the letter followed by an apostrophe ("o'" is o-acute, "O'" its upper   *)
(* case), and n-tilde is "n~".  Topic names are TLA+ strings written with   *)
(* the same convention ("economi'a").                                      *)
(***************************************************************************)
EXTENDS Integers, Sequences, FiniteSets, TLC

(***************************************************************************)
(* Python str operations used by the code                                  *)
(***************************************************************************)
UpperChars ==
  <<"A","B","C","D","E","F","G","H","I","J","K","L","M","N","O","P","Q","R",
    "S","T","U","V","W","X","Y","Z","A'","E'","I'","O'","U'","N~">>

LowerChars ==
  <<"a","b","c","d","e","f","g","h","i","j","k","l","m","n","o","p","q","r",
    "s","t","u","v","w","x","y","z","a'","e'","i'","o'","u'","n~">>

\* str.lower() on the characters that have a lower case
LowerTable ==
  [c \in {UpperChars[i] : i \in 1..Len(UpperChars)} |->
     LowerChars[CHOOSE i \in 1..Len(UpperChars) : UpperChars[i] = c]]

\* str.lower() on one character
LowerChar(c) == IF c \in DOMAIN LowerTable THEN LowerTable[c] ELSE c

\* str.lower()
Lower(s) == [i \in 1..Len(s) |-> LowerChar(s[i])]

\* s.startswith(p)
StartsWith(s, p) == Len(p) <= Len(s) /\ SubSeq(s, 1, Len(p)) = p

\* `p in s` for two str values: p occurs in s as a contiguous substring
Contains(s, p) ==
  \E i \in 0..(Len(s) - Len(p)) : SubSeq(s, i + 1, i + Len(p)) = p

(***************************************************************************)
(* String literals of the source                                           *)
(***************************************************************************)
K_titulo == <<"t","i","t","u","l","o">>

K_title == <<"t","i","t","l","e">>

K_nombre == <<"n","o","m","b","r","e">>

K_Titulo == <<"T","i","t","u","l","o">>

K_seccion == <<"s","e","c","c","i","o","n">>

K_departamento == <<"d","e","p","a","r","t","a","m","e","n","t","o">>

K_rango == <<"r","a","n","g","o">>

K_urlPdf == <<"u","r","l","P","d","f">>

K_urlHtml == <<"u","r","l","H","t","m","l">>

K_urlXml == <<"u","r","l","X","m","l">>

K_URL_PDF == <<"U","R","L","_","P","D","F">>

K_url == <<"u","r","l">>

K_resultados == <<"r","e","s","u","l","t","a","d","o","s">>

K_item == <<"i","t","e","m">>

K_error == <<"e","r","r","o","r">>

SinTitulo == <<"S","i","n"," ","t","i'","t","u","l","o">>

SinTituloApp == <<"(","s","i","n"," ","t","i'","t","u","l","o",")">>

PyNone == <<"N","o","n","e">>

\* TEMAS_BOE: topic -> keywords, in declaration order (a dict keeps it)
TEMAS_BOE ==
  <<
    [tema |-> "economi'a", keywords |-> <<
       <<"i","m","p","u","e","s","t","o">>,
       <<"f","i","s","c","a","l">>,
       <<"t","r","i","b","u","t">>,
       <<"e","c","o","n","o'","m">>,
       <<"f","i","n","a","n","c">>,
       <<"b","a","n","c","o">>,
       <<"c","o","m","e","r","c","i","o">>,
       <<"e","m","p","r","e","s","a">>
    >>],
    [tema |-> "empleo", keywords |-> <<
       <<"l","a","b","o","r","a","l">>,
       <<"t","r","a","b","a","j","o">>,
       <<"e","m","p","l","e","o">>,
       <<"s","a","l","a","r","i","a","l">>,
       <<"p","e","n","s","i","o","n">>,
       <<"s","e","g","u","r","i","d","a","d"," ","s","o","c","i","a","l">>,
       <<"c","o","n","t","r","a","t","o">>
    >>],
    [tema |-> "educacio'n", keywords |-> <<
       <<"e","d","u","c","a","c","i","o'","n">>,
       <<"e","d","u","c","a","t","i","v","o">>,
       <<"u","n","i","v","e","r","s","i","d","a","d">>,
       <<"e","s","c","o","l","a","r">>,
       <<"f","o","r","m","a","c","i","o'","n">>,
       <<"d","o","c","e","n","t","e">>
    >>],
    [tema |-> "sanidad", keywords |-> <<
       <<"s","a","l","u","d">>,
       <<"s","a","n","i","t">>,
       <<"m","e'","d","i","c">>,
       <<"h","o","s","p","i","t","a","l">>,
       <<"f","a","r","m","a","c">>,
       <<"m","e","d","i","c","a","m","e","n","t","o">>,
       <<"e","p","i","d","e","m">>
    >>],
    [tema |-> "justicia", keywords |-> <<
       <<"p","e","n","a","l">>,
       <<"p","r","o","c","e","s","a","l">>,
       <<"j","u","d","i","c","i","a","l">>,
       <<"t","r","i","b","u","n","a","l">>,
       <<"s","e","n","t","e","n","c","i","a">>,
       <<"d","e","l","i","t","o">>,
       <<"c","o'","d","i","g","o">>
    >>],
    [tema |-> "medio_ambiente", keywords |-> <<
       <<"a","m","b","i","e","n","t">>,
       <<"e","c","o","l","o","g">>,
       <<"c","l","i","m","a">>,
       <<"s","o","s","t","e","n","i","b">>,
       <<"r","e","s","i","d","u","o">>,
       <<"c","o","n","t","a","m","i","n">>,
       <<"e","n","e","r","g">>
    >>],
    [tema |-> "vivienda", keywords |-> <<
       <<"v","i","v","i","e","n","d","a">>,
       <<"a","l","q","u","i","l","e","r">>,
       <<"i","n","m","o","b","i","l","i","a","r">>,
       <<"h","i","p","o","t","e","c","a">>,
       <<"a","r","r","e","n","d","a","m","i","e","n","t","o">>,
       <<"e","d","i","f","i","c","a","c","i","o'","n">>
    >>],
    [tema |-> "transporte", keywords |-> <<
       <<"t","r","a","n","s","p","o","r","t">>,
       <<"t","r","a'","f","i","c","o">>,
       <<"c","i","r","c","u","l","a","c","i","o'","n">>,
       <<"v","e","h","i'","c","u","l","o">>,
       <<"c","a","r","r","e","t","e","r","a">>,
       <<"f","e","r","r","o","c","a","r","r","i","l">>
    >>],
    [tema |-> "administracio'n", keywords |-> <<
       <<"a","d","m","i","n","i","s","t","r">>,
       <<"p","u'","b","l","i","c","o">>,
       <<"f","u","n","c","i","o","n","a","r","i","o">>,
       <<"o","p","o","s","i","c","i","o'","n">>,
       <<"c","o","n","c","u","r","s","o">>,
       <<"n","o","m","b","r","a","m","i","e","n","t","o">>
    >>]
  >>

(***************************************************************************)
(* Keys of the results, and the texts of the summaries drawn               *)
(***************************************************************************)
K_fecha == <<"f","e","c","h","a">>

K_total_documentos == <<"t","o","t","a","l","_","d","o","c","u","m","e","n","t","o","s">>

K_clasificacion == <<"c","l","a","s","i","f","i","c","a","c","i","o","n">>

K_documentos_por_tema == <<"d","o","c","u","m","e","n","t","o","s","_","p","o","r","_","t","e","m","a">>

K_html == <<"h","t","m","l">>

K_email == <<"e","m","a","i","l">>

K_status == <<"s","t","a","t","u","s">>

K_mensaje == <<"m","e","n","s","a","j","e">>

T_empleo == <<"O","r","d","e","n"," ","d","e"," ","e","m","p","l","e","o"," ","j","u","v","e","n","i","l">>

T_vivienda == <<"L","e","y"," ","d","e"," ","v","i","v","i","e","n","d","a"," ","s","o","c","i","a","l">>

T_contrato == <<"C","o","n","t","r","a","t","o"," ","d","e"," ","e","m","p","r","e","s","a">>

T_general == <<"A","c","u","e","r","d","o"," ","g","e","n","e","r","a","l">>

T_fiscal == <<"R","E","A","L"," ","D","E","C","R","E","T","O"," ","F","I","S","C","A","L">>

T_anuncio == <<"A","n","u","n","c","i","o">>

V_II == <<"I","I">>

V_Fomento == <<"F","o","m","e","n","t","o">>

V_Trabajo == <<"M","i","n","i","s","t","e","r","i","o"," ","d","e"," ","T","r","a","b","a","j","o">>

U_1 == <<"h","t","t","p",":","/","/","x","/","1",".","p","d","f">>

U_2 == <<"h","t","t","p",":","/","/","x","/","2",".","h","t","m","l">>

F_hoy == <<"2","0","2","4","0","1","0","2">>

E_ConnectionError == <<"C","o","n","n","e","c","t","i","o","n","E","r","r","o","r",":"," ","s","i","n"," ","c","o","n","e","x","i","o","n">>

E_Timeout == <<"R","e","a","d","T","i","m","e","o","u","t",":"," ","t","i","m","e","o","u","t">>

E_HTTPError == <<"H","T","T","P","E","r","r","o","r",":"," ","4","0","4"," ","C","l","i","e","n","t"," ","E","r","r","o","r">>

M_requiere == <<"S","e"," ","r","e","q","u","i","e","r","e"," ","c","o","n","f","i","g","u","r","a","r"," ","r","e","m","i","t","e","n","t","e"," ","y"," ","p","a","s","s","w","o","r","d">>

M_error_email == <<"E","r","r","o","r"," ","a","l"," ","e","n","v","i","a","r"," ","e","m","a","i","l",":"," ","S","M","T","P","E","x","c","e","p","t","i","o","n">>

M_enviado == <<"E","m","a","i","l"," ","e","n","v","i","a","d","o"," ","a"," ">>

M_success == <<"s","u","c","c","e","s","s">>

D_lector == <<"l","e","c","t","o","r","@","b","o","e",".","e","s">>

R_remitente == <<"y","o","@","b","o","e",".","e","s">>

P_password == <<"c","l","a","v","e">>

K__error == <<"_","e","r","r","o","r">>

(***************************************************************************)
(* Decoded JSON values.  Every node has the same fields: t is the Python   *)
(* type, keys/kids the items of a dict in insertion order (kids alone the  *)
(* items of a list), s the characters of a str.                            *)
(***************************************************************************)
Str(s) == [t |-> "str", keys |-> <<>>, kids |-> <<>>, s |-> s]

Null == [t |-> "null", keys |-> <<>>, kids |-> <<>>, s |-> <<>>]

Dict(keys, kids) == [t |-> "dict", keys |-> keys, kids |-> kids, s |-> <<>>]

List(kids) == [t |-> "list", keys |-> <<>>, kids |-> kids, s |-> <<>>]

Range(f) == {f[i] : i \in DOMAIN f}

Min(a, b) == IF a <= b THEN a ELSE b

\* `k in obj` for a dict
HasKey(obj, k) == \E i \in 1..Len(obj.keys) : obj.keys[i] = k

\* obj.get(k, default)
Get(obj, k, default) ==
  IF HasKey(obj, k)
  THEN obj.kids[CHOOSE i \in 1..Len(obj.keys) : obj.keys[i] = k]
  ELSE default

\* bool(v)
Truthy(v) ==
  CASE v.t = "str" -> v.s # <<>>
    [] v.t = "null" -> FALSE
    [] OTHER -> v.kids # <<>>

\* str(v) as an f-string interpolates it; the summaries drawn below keep
\* only str and None values under the keys that are interpolated
PyStr(v) ==
  CASE v.t = "str" -> v.s
    [] v.t = "null" -> PyNone
    [] v.t = "dict" -> <<"{", "}">>
    [] OTHER -> <<"[", "]">>

\* seq[:n] for n >= 0
Slice(seq, n) == SubSeq(seq, 1, Min(n, Len(seq)))

(***************************************************************************)
(* boe_digest.py: extraer_documentos                                       *)
(***************************************************************************)
\* the mutation of EsDocumento that asks for the PDF link
EsDocumentoSoloPdf(obj) == HasKey(obj, K_titulo) /\ HasKey(obj, K_urlPdf)

\* the mutation of EsDocumento that forgets the url test
EsDocumentoSinUrl(obj) == HasKey(obj, K_titulo)

\* the test of line 58
EsDocumento(obj) ==
  /\ HasKey(obj, K_titulo)
  /\ \E i \in 1..Len(obj.keys) : StartsWith(obj.keys[i], K_url)

\* the record of lines 59-67
Documento(obj) ==
  [titulo |-> Get(obj, K_titulo, Str(SinTitulo)),
   seccion |-> Get(obj, K_seccion, Str(<<>>)),
   departamento |-> Get(obj, K_departamento, Str(<<>>)),
   rango |-> Get(obj, K_rango, Str(<<>>)),
   url_pdf |-> Get(obj, K_urlPdf, Str(<<>>)),
   url_html |-> Get(obj, K_urlHtml, Str(<<>>)),
   url_xml |-> Get(obj, K_urlXml, Str(<<>>))]

RECURSIVE Concatenar(_, _, _)
\* ss[lo] \o ... \o ss[hi], for a sequence ss of sequences
Concatenar(ss, lo, hi) ==
  IF lo > hi THEN <<>>
  ELSE IF lo = hi THEN ss[lo]
  ELSE Concatenar(ss, lo, (lo + hi) \div 2)
       \o Concatenar(ss, (lo + hi) \div 2 + 1, hi)

RECURSIVE buscar_recursivo(_)

\* what buscar_recursivo(obj) appends to documentos: the nodes matched, in
\* the order of the appends (Documento makes the records).  The node itself
\* comes first (line 68), then what each value (lines 71-72) or item (lines
\* 75-76) appends, in order.
buscar_recursivo(obj) ==
  IF obj.t = "dict"
  THEN (IF EsDocumento(obj) THEN <<obj>> ELSE <<>>)
       \o Concatenar([i \in 1..Len(obj.kids) |-> buscar_recursivo(obj.kids[i])],
                     1, Len(obj.kids))
  ELSE IF obj.t = "list"
  THEN Concatenar([i \in 1..Len(obj.kids) |-> buscar_recursivo(obj.kids[i])],
                  1, Len(obj.kids))
  ELSE <<>>

\* the nodes extraer_documentos matches
nodos_documento(sumario_json) == buscar_recursivo(sumario_json)

extraer_documentos(sumario_json) ==
  LET h == nodos_documento(sumario_json)
  IN [i \in 1..Len(h) |-> Documento(h[i])]

(***************************************************************************)
(* pages/2 Chat_BOE.py: extraer_documentos_sumario                         *)
(***************************************************************************)
EsDocumentoChat(obj) ==
  /\ HasKey(obj, K_titulo)
  /\ \E i \in 1..Len(obj.keys) : StartsWith(obj.keys[i], K_url)

DocumentoChat(obj) ==
  [titulo |-> Get(obj, K_titulo, Str(SinTitulo)),
   seccion |-> Get(obj, K_seccion, Str(<<>>)),
   departamento |-> Get(obj, K_departamento, Str(<<>>)),
   url_pdf |-> Get(obj, K_urlPdf, Str(<<>>)),
   url_html |-> Get(obj, K_urlHtml, Str(<<>>))]

RECURSIVE buscar_recursivo_chat(_)

\* what buscar_recursivo(obj) appends to documentos, as in boe_digest.py
buscar_recursivo_chat(obj) ==
  IF obj.t = "dict"
  THEN (IF EsDocumentoChat(obj) THEN <<obj>> ELSE <<>>)
       \o Concatenar([i \in 1..Len(obj.kids) |-> buscar_recursivo_chat(obj.kids[i])],
                     1, Len(obj.kids))
  ELSE IF obj.t = "list"
  THEN Concatenar([i \in 1..Len(obj.kids) |-> buscar_recursivo_chat(obj.kids[i])],
                  1, Len(obj.kids))
  ELSE <<>>

\* the nodes extraer_documentos_sumario returns records for: documentos[:limit]
nodos_sumario(sumario_json, limit) ==
  Slice(buscar_recursivo_chat(sumario_json), limit)

extraer_documentos_sumario(sumario_json, limit) ==
  LET h == nodos_sumario(sumario_json, limit)
  IN [i \in 1..Len(h) |-> DocumentoChat(h[i])]

(***************************************************************************)
(* app.py: _extract_sumario_entries                                        *)
(***************************************************************************)
RECURSIVE rec(_, _, _)
RECURSIVE rec_hijos(_, _, _, _)

\* keys_lower.keys(): the lowercased keys, each once, in first-insertion order
RECURSIVE KeysLower(_, _, _)
KeysLower(keys, i, acc) ==
  IF i > Len(keys) THEN acc
  ELSE KeysLower(keys, i + 1,
         IF \E j \in 1..Len(acc) : acc[j] = Lower(keys[i])
         THEN acc ELSE Append(acc, Lower(keys[i])))

\* keys_lower[kl]: the last original key whose lowercase is kl
OrigKey(x, kl) ==
  x.keys[CHOOSE i \in 1..Len(x.keys) :
           /\ Lower(x.keys[i]) = kl
           /\ \A j \in (i + 1)..Len(x.keys) : Lower(x.keys[j]) # kl]

\* x.get(keys_lower.get(kl)): None when no key lowercases to kl
GetLower(x, kl) ==
  IF \E i \in 1..Len(x.keys) : Lower(x.keys[i]) = kl
  THEN Get(x, OrigKey(x, kl), Null)
  ELSE Null

\* the test of lines 109-110
EsEntrada(x) ==
  LET keys_lower == KeysLower(x.keys, 1, <<>>)
      has_url == \E i \in 1..Len(keys_lower) : StartsWith(keys_lower[i], K_url)
  IN has_url /\ \E i \in 1..Len(keys_lower) :
                   keys_lower[i] \in {K_titulo, K_title, K_nombre}

\* the mutation of the record of lines 111-116 that reads the title keys in
\* the order nombre, title, titulo
Entrada_al_reves(x) ==
  LET keys_lower == KeysLower(x.keys, 1, <<>>)
      t1 == GetLower(x, K_nombre)
      t2 == GetLower(x, K_title)
      t3 == GetLower(x, K_titulo)
      titulo == IF Truthy(t1) THEN t1 ELSE IF Truthy(t2) THEN t2 ELSE t3
      EsUrl(kl) == StartsWith(kl, K_url) /\ GetLower(x, kl).t = "str"
      kls == SelectSeq(keys_lower, EsUrl)
  IN [titulo |-> IF Truthy(titulo) THEN titulo ELSE Str(SinTituloApp),
      urls |-> [i \in 1..Len(kls) |-> [k |-> kls[i], v |-> GetLower(x, kls[i])]]]

\* the record of lines 111-116
Entrada(x) ==
  LET keys_lower == KeysLower(x.keys, 1, <<>>)
      t1 == GetLower(x, K_titulo)
      t2 == GetLower(x, K_title)
      t3 == GetLower(x, K_nombre)
      titulo == IF Truthy(t1) THEN t1 ELSE IF Truthy(t2) THEN t2 ELSE t3
      EsUrl(kl) == StartsWith(kl, K_url) /\ GetLower(x, kl).t = "str"
      kls == SelectSeq(keys_lower, EsUrl)
  IN [titulo |-> IF Truthy(titulo) THEN titulo ELSE Str(SinTituloApp),
      urls |-> [i \in 1..Len(kls) |-> [k |-> kls[i], v |-> GetLower(x, kls[i])]]]

\* rec(x) with the list `out` it appends to (the nodes matched) and `limit`
rec(x, out, limit) ==
  IF Len(out) >= limit THEN out
  ELSE IF x.t = "dict"
  THEN rec_hijos(x.kids, 1,
         IF EsEntrada(x) THEN Append(out, x) ELSE out, limit)
  ELSE IF x.t = "list"
  THEN rec_hijos(x.kids, 1, out, limit)
  ELSE out

\* the for loops of lines 117-118 and 120-121
rec_hijos(kids, i, out, limit) ==
  IF i > Len(kids) THEN out
  ELSE rec_hijos(kids, i + 1, rec(kids[i], out, limit), limit)

\* the nodes _extract_sumario_entries returns records for
nodos_entradas(sumario_json, limit) == rec(sumario_json, <<>>, limit)

_extract_sumario_entries(sumario_json, limit) ==
  LET h == nodos_entradas(sumario_json, limit)
  IN [i \in 1..Len(h) |-> Entrada(h[i])]

(***************************************************************************)
(* boe_digest.py: clasificar_por_tema                                      *)
(* temas_filtro is [dado, nombres]: dado is FALSE for None.  A             *)
(* classification is the dict as the sequence of its items, in insertion   *)
(* order: [tema, docs].                                                    *)
(***************************************************************************)
SinFiltro == [dado |-> FALSE, nombres |-> <<>>]

Filtro(nombres) == [dado |-> TRUE, nombres |-> nombres]

\* texto_busqueda of line 96
texto_busqueda(doc) ==
  Lower(PyStr(doc.titulo) \o <<" ">> \o PyStr(doc.seccion) \o <<" ">>
        \o PyStr(doc.departamento))

\* the mutation of temas_activos that leaves the filter aside
temas_activos_sin_filtro(tabla, temas_filtro) == tabla

\* the mutation of temas_activos that rejects a filter with an unknown name
temas_activos_estricto(tabla, temas_filtro) ==
  IF temas_filtro.dado /\ temas_filtro.nombres # <<>>
  THEN IF \A n \in Range(temas_filtro.nombres) :
            \E i \in 1..Len(tabla) : tabla[i].tema = n
       THEN SelectSeq(tabla, LAMBDA e : e.tema \in Range(temas_filtro.nombres))
       ELSE <<>>
  ELSE tabla

\* the mutation of temas_activos that tests `temas_filtro is not None`
temas_activos_si_dado(tabla, temas_filtro) ==
  IF temas_filtro.dado
  THEN SelectSeq(tabla, LAMBDA e : e.tema \in Range(temas_filtro.nombres))
  ELSE tabla

\* temas_activos of lines 90-93
temas_activos(tabla, temas_filtro) ==
  IF temas_filtro.dado /\ temas_filtro.nombres # <<>>
  THEN SelectSeq(tabla, LAMBDA e : e.tema \in Range(temas_filtro.nombres))
  ELSE tabla

\* any(keyword in texto_busqueda for keyword in keywords)
AlgunaKeyword(texto, keywords) ==
  \E j \in 1..Len(keywords) : Contains(texto, keywords[j])

RECURSIVE tema_de(_, _, _)
RECURSIVE tema_de_ultimo(_, _, _, _)

\* the mutation of tema_de without the break: the last matching topic wins
tema_de_ultimo(activos, texto, i, tema) ==
  IF i > Len(activos) THEN tema
  ELSE tema_de_ultimo(activos, texto, i + 1,
         IF AlgunaKeyword(texto, activos[i].keywords) THEN activos[i].tema ELSE tema)

tema_de_sin_break(activos, texto, i) == tema_de_ultimo(activos, texto, i, "otros")

\* the inner loop of lines 97-106 from the i-th active topic on: the bucket
\* the document is appended to
tema_de(activos, texto, i) ==
  IF i > Len(activos) THEN "otros"
  ELSE IF AlgunaKeyword(texto, activos[i].keywords) THEN activos[i].tema
  ELSE tema_de(activos, texto, i + 1)

\* the mutation of agregar without the clasificado flag: the document goes
\* to "otros" as well
agregar_y_otros(clasificacion, tema, doc) ==
  [i \in 1..Len(clasificacion) |->
     IF clasificacion[i].tema = tema \/ clasificacion[i].tema = "otros"
     THEN [clasificacion[i] EXCEPT !.docs = Append(@, doc)]
     ELSE clasificacion[i]]

\* clasificacion[tema].append(doc)
agregar(clasificacion, tema, doc) ==
  [i \in 1..Len(clasificacion) |->
     IF clasificacion[i].tema = tema
     THEN [clasificacion[i] EXCEPT !.docs = Append(@, doc)]
     ELSE clasificacion[i]]

RECURSIVE clasificar_desde(_, _, _, _)

\* the loop of lines 95-106 from the i-th document on
clasificar_desde(documentos, i, activos, clasificacion) ==
  IF i > Len(documentos) THEN clasificacion
  ELSE clasificar_desde(documentos, i + 1, activos,
         agregar(clasificacion,
                 tema_de(activos, texto_busqueda(documentos[i]), 1),
                 documentos[i]))

\* the mutation of the final comprehension that keeps the empty buckets
sin_vacias_todas(clasificacion) == clasificacion

\* line 109: drop the empty categories
sin_vacias(clasificacion) == SelectSeq(clasificacion, LAMBDA e : e.docs # <<>>)

\* the mutation of clasificar that creates the bucket "otros" first
clasificar_otros_primero(tabla, documentos, temas_filtro) ==
  LET inicial == [i \in 1..(Len(tabla) + 1) |->
                    [tema |-> IF i = 1 THEN "otros" ELSE tabla[i - 1].tema,
                     docs |-> <<>>]]
  IN sin_vacias(clasificar_desde(documentos, 1,
                  temas_activos(tabla, temas_filtro), inicial))

\* clasificar_por_tema over a topic table
clasificar(tabla, documentos, temas_filtro) ==
  LET inicial == [i \in 1..(Len(tabla) + 1) |->
                    [tema |-> IF i <= Len(tabla) THEN tabla[i].tema ELSE "otros",
                     docs |-> <<>>]]
  IN sin_vacias(clasificar_desde(documentos, 1,
                  temas_activos(tabla, temas_filtro), inicial))

clasificar_por_tema(documentos, temas_filtro) ==
  clasificar(TEMAS_BOE, documentos, temas_filtro)

(***************************************************************************)
(* boe_digest.py: generar_resumen_html.  The HTML is the sequence of its   *)
(* interpolated parts: the total, and per topic its heading (count), its   *)
(* documents (title, section, department, links) and its overflow note.    *)
(* n is the number shown, text the characters interpolated.  The style     *)
(* sheet and the footer are constant text and are left out; the date is    *)
(* shown as given.                                                         *)
(***************************************************************************)
MaxPorTema == 10

Parte(tag, tema, n, text) == [tag |-> tag, tema |-> tema, n |-> n, text |-> text]

RECURSIVE Suma(_, _)
\* sum(len(docs) for docs in clasificacion.values()) from the i-th item on
Suma(clasificacion, i) ==
  IF i > Len(clasificacion) THEN 0
  ELSE Len(clasificacion[i].docs) + Suma(clasificacion, i + 1)

\* documentos[:10] of line 207
mostrados(documentos) == Slice(documentos, MaxPorTema)

\* the mutation of the note of lines 229-230 that counts every document
nota_total(tema, documentos) ==
  IF Len(documentos) > MaxPorTema
  THEN <<Parte("mas", tema, Len(documentos), <<>>)>>
  ELSE <<>>

\* lines 229-230
nota(tema, documentos) ==
  IF Len(documentos) > MaxPorTema
  THEN <<Parte("mas", tema, Len(documentos) - MaxPorTema, <<>>)>>
  ELSE <<>>

\* lines 208-227 for one document: its title, its metadata line, its links
documento_html(tema, doc) ==
  <<Parte("documento", tema, 0, PyStr(doc.titulo))>>
  \o (IF Truthy(doc.seccion)
      THEN <<Parte("seccion", tema, 0, PyStr(doc.seccion))>> ELSE <<>>)
  \o (IF Truthy(doc.departamento)
      THEN <<Parte("departamento", tema, 0, PyStr(doc.departamento))>> ELSE <<>>)
  \o (IF Truthy(doc.url_pdf)
      THEN <<Parte("pdf", tema, 0, PyStr(doc.url_pdf))>> ELSE <<>>)
  \o (IF Truthy(doc.url_html)
      THEN <<Parte("html", tema, 0, PyStr(doc.url_html))>> ELSE <<>>)

RECURSIVE documentos_html(_, _, _)
\* the loop of line 207 from the i-th shown document on
documentos_html(tema, m, i) ==
  IF i > Len(m) THEN <<>>
  ELSE documento_html(tema, m[i]) \o documentos_html(tema, m, i + 1)

\* lines 198-232 for one item of the classification
seccion_html(tema, documentos) ==
  IF documentos = <<>> THEN <<>>
  ELSE <<Parte("tema", tema, Len(documentos), <<>>)>>
       \o documentos_html(tema, mostrados(documentos), 1)
       \o nota(tema, documentos)

RECURSIVE secciones_html(_, _)
secciones_html(clasificacion, i) ==
  IF i > Len(clasificacion) THEN <<>>
  ELSE seccion_html(clasificacion[i].tema, clasificacion[i].docs)
       \o secciones_html(clasificacion, i + 1)

generar_resumen_html(fecha, clasificacion) ==
  <<Parte("fecha", "", 0, fecha), Parte("total", "", Suma(clasificacion, 1), <<>>)>>
  \o secciones_html(clasificacion, 1)

(***************************************************************************)
(* The summaries the gazette API may answer with                           *)
(***************************************************************************)
MaxNodos == 3

MaxAnidados == 2

MaxDocs == 2

MaxLimite == 3

MaxLargo == 12

MaxFiltro == 2

\* the two documents of the end-to-end scenario
DocEmpleo ==
  Dict(<<K_titulo, K_seccion, K_urlPdf>>, <<Str(T_empleo), Str(V_II), Str(U_1)>>)

DocVivienda ==
  Dict(<<K_titulo, K_departamento, K_urlHtml>>,
       <<Str(T_vivienda), Str(V_Fomento), Str(U_2)>>)

\* a title with a keyword of "empleo" before a keyword of "economi'a"
DocContrato == Dict(<<K_titulo, K_urlPdf>>, <<Str(T_contrato), Str(U_1)>>)

\* no keyword at all
DocGeneral == Dict(<<K_titulo, K_urlPdf>>, <<Str(T_general), Str(U_1)>>)

\* a keyword in upper case
DocFiscal == Dict(<<K_titulo, K_urlHtml>>, <<Str(T_fiscal), Str(U_2)>>)

\* a keyword in the department only
DocAnuncio ==
  Dict(<<K_titulo, K_departamento, K_urlPdf>>,
       <<Str(T_anuncio), Str(V_Trabajo), Str(U_1)>>)

Docs == {DocEmpleo, DocVivienda, DocContrato, DocGeneral, DocFiscal, DocAnuncio}

\* a document whose texts hold markup characters
T_marcado == <<"A", "<", "b", ">", "&", "C">>

V_marcada == <<"I", " ", "&", " ", "I", "I">>

V_marcado == <<"<", "i", ">", "F", "o", "m", "e", "n", "t", "o">>

DocMarcado ==
  Dict(<<K_titulo, K_seccion, K_departamento, K_urlPdf>>,
       <<Str(T_marcado), Str(V_marcada), Str(V_marcado), Str(U_1)>>)

\* nodes that lack a title key, a url key, or have them in another case
SoloTitulo == Dict(<<K_titulo, K_seccion>>, <<Str(T_contrato), Str(V_II)>>)

SoloUrl == Dict(<<K_urlHtml>>, <<Str(U_2)>>)

Mayusculas == Dict(<<K_Titulo, K_URL_PDF>>, <<Str(T_fiscal), Str(U_1)>>)

\* the title under "title", under "nombre"
ConTitle == Dict(<<K_title, K_url>>, <<Str(T_general), Str(U_2)>>)

ConNombre == Dict(<<K_nombre, K_urlXml>>, <<Str(T_anuncio), Str(U_1)>>)

\* nodes with several title keys, some of them empty or None
TresTitulos ==
  Dict(<<K_nombre, K_title, K_titulo, K_url>>,
       <<Str(T_anuncio), Str(T_general), Str(T_empleo), Str(U_1)>>)

TituloVacio == Dict(<<K_titulo, K_title, K_url>>, <<Str(<<>>), Str(T_general), Str(U_1)>>)

TituloNulo == Dict(<<K_Titulo, K_nombre, K_url>>, <<Null, Str(T_anuncio), Str(U_2)>>)

TitulosVacios == Dict(<<K_titulo, K_title, K_urlPdf>>, <<Str(<<>>), Null, Str(U_1)>>)

\* two keys that differ in case only
TituloRepetido ==
  Dict(<<K_titulo, K_Titulo, K_url>>, <<Str(T_empleo), Str(T_fiscal), Str(U_1)>>)

ConTitulos == {TresTitulos, TituloVacio, TituloNulo, TitulosVacios, TituloRepetido}

Clases == {DocEmpleo, DocVivienda, SoloTitulo, SoloUrl}

Variantes == {Mayusculas, ConTitle, ConNombre}

\* node d with the forest `hijos` nested under the key "item"
ConHijos(d, hijos) ==
  IF hijos = <<>> THEN d
  ELSE Dict(Append(d.keys, K_item), Append(d.kids, List(hijos)))

RECURSIVE Bosques(_)
\* the forests of exactly n nodes of Clases
Bosques(n) ==
  IF n = 0 THEN {<<>>}
  ELSE UNION {{<<ConHijos(d, h)>> \o r : d \in Clases, h \in Bosques(j),
                                        r \in Bosques(n - 1 - j)}
              : j \in 0..(n - 1)}

Raiz(lista) == Dict(<<K_resultados>>, <<List(lista)>>)

RECURSIVE Repetir(_, _)
Repetir(d, n) == IF n = 0 THEN <<>> ELSE <<d>> \o Repetir(d, n - 1)

RECURSIVE Listas(_, _)
\* the sequences over S of exactly n elements
Listas(S, n) ==
  IF n = 0 THEN {<<>>}
  ELSE {Append(l, x) : l \in Listas(S, n - 1), x \in S}

\* the sequences over S of exactly n elements, all different
SinRepetir(S, n) ==
  {l \in Listas(S, n) : \A i, j \in 1..n : l[i] = l[j] => i = j}

\* nested summaries of up to n nodes
Anidados(n) == {Raiz(b) : b \in UNION {Bosques(m) : m \in 0..n}}

SumariosAnidados == Anidados(MaxAnidados)

\* flat summaries of up to MaxDocs documents
SumariosPlanos == {Raiz(l) : l \in UNION {Listas(Docs, n) : n \in 0..MaxDocs}}

\* summaries with a node whose keys are spelled another way
SumariosVariantes ==
  UNION {{Raiz(<<v>>), Raiz(<<v, DocEmpleo>>), Raiz(<<ConHijos(DocVivienda, <<v>>)>>)}
         : v \in Variantes}

\* long flat summaries: k documents of one topic, then documents of none
SumariosLargos ==
  UNION {{Raiz(Repetir(DocEmpleo, k) \o Repetir(DocGeneral, n - k)) : k \in 0..n}
         : n \in 1..MaxLargo}

\* summaries with the document whose texts hold markup characters
SumariosMarcados == {Raiz(<<DocMarcado>>), Raiz(<<DocEmpleo, DocMarcado>>)}

\* bodies of another shape
SumariosRaros ==
  {Null, Str(T_general), Str(K_error), List(<<>>), Dict(<<>>, <<>>),
   Dict(<<K_error, K_resultados>>, <<Str(T_general), List(<<DocEmpleo>>)>>)}

Sumarios ==
  SumariosAnidados \cup SumariosPlanos \cup SumariosLargos
  \cup SumariosVariantes \cup SumariosRaros \cup SumariosMarcados

\* the digest page: temas_filtro=temas_seleccionados if temas_seleccionados
\* else None, where temas_seleccionados lists the ticked topics
filtro_de_pagina(temas_seleccionados) ==
  IF temas_seleccionados # <<>> THEN Filtro(temas_seleccionados) ELSE SinFiltro

NombresFiltro == {"empleo", "vivienda", "desconocido"}

Filtros ==
  {SinFiltro} \cup
  {Filtro(l) : l \in UNION {SinRepetir(NombresFiltro, n) : n \in 0..MaxFiltro}}

\* the arguments of the limited extractors
\* summaries of one node with several title keys
SumariosTitulos == {Raiz(<<d>>) : d \in ConTitulos}

Arboles ==
  Anidados(MaxNodos) \cup SumariosVariantes \cup SumariosRaros \cup SumariosTitulos

Limites == 0..MaxLimite

(***************************************************************************)
(* boe_digest.py: obtener_sumario_boe, enviar_email_digest                 *)
(***************************************************************************)
ErroresFetch == {E_ConnectionError, E_Timeout, E_HTTPError}

\* the mutation of sumario_de_error with the key of app.py's _get_json
sumario_de_error_app(e) == Dict(<<K__error>>, <<Str(e)>>)

\* obtener_sumario_boe when requests.get or raise_for_status raises e
sumario_de_error(e) == Dict(<<K_error>>, <<Str(e)>>)

\* `"error" in sumario` of line 292, for a dict, a list and a str
contiene_error(sumario) ==
  CASE sumario.t = "dict" -> HasKey(sumario, K_error)
    [] sumario.t = "list" ->
         \E i \in 1..Len(sumario.kids) : sumario.kids[i] = Str(K_error)
    [] OTHER -> Contains(sumario.s, K_error)

\* config_email: dado is FALSE for None; remitente and password are str
SinConfig == [dado |-> FALSE, remitente |-> <<>>, password |-> <<>>]

Config(remitente, password) ==
  [dado |-> TRUE, remitente |-> remitente, password |-> password]

ConfigsEmail ==
  {SinConfig, Config(R_remitente, P_password), Config(<<>>, P_password),
   Config(R_remitente, <<>>), Config(<<>>, <<>>)}

\* None or "" is <<>>
Destinatarios == {<<>>, D_lector}

\* the mutation of line 257 that asks for one credential only
faltan_ambas(remitente, password) == remitente = <<>> /\ password = <<>>

\* line 257
faltan_credenciales(remitente, password) == remitente = <<>> \/ password = <<>>

\* enviar_email_digest: its return value, and whether it reached smtplib.SMTP;
\* smtp_ok tells whether connecting, starttls, login and send_message all
\* went through without an exception
enviar_email_digest(destinatario, contenido_html, remitente, password, smtp_ok) ==
  IF faltan_credenciales(remitente, password)
  THEN [ret |-> Dict(<<K_error>>, <<Str(M_requiere)>>), smtp |-> FALSE]
  ELSE IF smtp_ok
  THEN [ret |-> Dict(<<K_status, K_mensaje>>,
                     <<Str(M_success), Str(M_enviado \o destinatario)>>),
        smtp |-> TRUE]
  ELSE [ret |-> Dict(<<K_error>>, <<Str(M_error_email)>>), smtp |-> TRUE]

(***************************************************************************)
(* boe_digest.py: generar_digest_completo, one call, step by step          *)
(***************************************************************************)
VARIABLES
  pc,                \* the next step of generar_digest_completo
  fecha, temas_filtro, enviar_por_email, destinatario, config_email,
  sumario, documentos, clasificacion, html_resumen,
  resultado,         \* the value returned, SinResultado before the return
  peticiones,        \* GET requests issued to the gazette API
  llamadas_email,    \* calls of enviar_email_digest
  enviados,          \* messages handed to smtplib.SMTP: [para, cuerpo, ok]
  respuesta,         \* what the gazette API did: "ninguna", "fallo", "json"
  traza,             \* the steps taken so far, in order
  arbol, limite,     \* the arguments of the extractors called on their own
  entradas,          \* what _extract_sumario_entries(arbol, limite) returned
  docs_chat,         \* what extraer_documentos_sumario(arbol, limite) returned
  docs_digest,       \* what extraer_documentos(arbol) returned
  nodos,             \* per extractor, the nodes its records were made from
  hechas,            \* the extractors that have returned
  pagina,            \* the chat the session runs: "app" (app.py) or "chat"
  history,           \* st.session_state.history
  pc_chat,           \* "idle", or "procesando" between lines 240 and 362
  tipo_busqueda,     \* the search mode of the turn in course
  history_antes,     \* the history when the last user action began
  accion,            \* the last user action: "ninguna", "turno", "borrar"
  fuente,            \* what the data source of the last turn did
  llm                \* what the model (the agent, in app.py) returned in it

vars ==
  <<pc, fecha, temas_filtro, enviar_por_email, destinatario, config_email,
    sumario, documentos, clasificacion, html_resumen, resultado, peticiones,
    llamadas_email, enviados, respuesta, traza, arbol, limite, entradas, docs_chat, docs_digest,
    nodos, hechas, pagina, history, pc_chat, tipo_busqueda, history_antes,
    accion, fuente, llm>>

digest_vars ==
  <<pc, fecha, temas_filtro, enviar_por_email, destinatario, config_email,
    sumario, documentos, clasificacion, html_resumen, resultado, peticiones,
    llamadas_email, enviados, respuesta, traza>>

extract_vars == <<arbol, limite, entradas, docs_chat, docs_digest,
    nodos, hechas>>

chat_vars ==
  <<pagina, history, pc_chat, tipo_busqueda, history_antes, accion, fuente, llm>>

SinResultado == [t |-> "nada", keys |-> <<>>, kids |-> <<>>, s |-> <<>>]

\* the arguments are drawn where the code first reads them
InitDigest ==
  /\ pc = "obtener"
  /\ fecha = F_hoy
  /\ temas_filtro = SinFiltro
  /\ enviar_por_email = FALSE
  /\ destinatario = <<>>
  /\ config_email = SinConfig
  /\ sumario = Null
  /\ documentos = <<>>
  /\ clasificacion = <<>>
  /\ html_resumen = <<>>
  /\ resultado = SinResultado
  /\ peticiones = 0
  /\ llamadas_email = 0
  /\ enviados = <<>>
  /\ respuesta = "ninguna"
  /\ traza = <<>>

Extractores == {"app", "chat", "digest"}

InitExtractIdle ==
  /\ arbol = Null
  /\ limite = 0
  /\ entradas = <<>>
  /\ docs_chat = <<>>
  /\ docs_digest = <<>>
  /\ nodos = [e \in Extractores |-> <<>>]
  /\ hechas = {}

\* no chat session: the history as lines 211-212 of app.py leave it
InitChatIdle ==
  /\ pagina = "app"
  /\ history = <<>>
  /\ pc_chat = "idle"
  /\ tipo_busqueda = "libre"
  /\ history_antes = <<>>
  /\ accion = "ninguna"
  /\ fuente = "ninguna"
  /\ llm = [t |-> "nada", s |-> "", items |-> <<>>]

Init == InitDigest /\ InitExtractIdle /\ InitChatIdle

\* the mutation of lines 292-293 that goes on after a failed fetch
tras_obtener_sigue(s) == [pc |-> "extraer", ret |-> SinResultado]

\* lines 292-293 once obtener_sumario_boe has returned s: the next step and
\* the value returned, if any ("error" in None raises TypeError)
tras_obtener(s) ==
  IF s.t = "null" THEN [pc |-> "excepcion", ret |-> SinResultado]
  ELSE IF contiene_error(s) THEN [pc |-> "fin", ret |-> s]
  ELSE [pc |-> "extraer", ret |-> SinResultado]

\* lines 291-293, the GET fails (transport error, timeout, status not 2xx)
ObtenerFalla ==
  /\ pc = "obtener"
  /\ \E e \in ErroresFetch :
       LET s == sumario_de_error(e)
       IN /\ sumario' = s
          /\ pc' = tras_obtener(s).pc
          /\ resultado' = tras_obtener(s).ret
  /\ peticiones' = peticiones + 1
  /\ respuesta' = "fallo"
  /\ traza' = Append(traza, "obtener")
  /\ UNCHANGED <<fecha, temas_filtro, enviar_por_email, destinatario,
                 config_email, documentos, clasificacion, html_resumen,
                 llamadas_email, enviados>>

\* lines 291-293, the GET answers with a JSON body
Obtener ==
  /\ pc = "obtener"
  /\ \E cuerpo \in Sumarios :
       /\ sumario' = cuerpo
       /\ pc' = tras_obtener(cuerpo).pc
       /\ resultado' = tras_obtener(cuerpo).ret
  /\ peticiones' = peticiones + 1
  /\ respuesta' = "json"
  /\ traza' = Append(traza, "obtener")
  /\ UNCHANGED <<fecha, temas_filtro, enviar_por_email, destinatario,
                 config_email, documentos, clasificacion, html_resumen,
                 llamadas_email, enviados>>

\* line 296
Extraer ==
  /\ pc = "extraer"
  /\ documentos' = extraer_documentos(sumario)
  /\ pc' = "clasificar"
  /\ traza' = Append(traza, "extraer")
  /\ UNCHANGED respuesta
  /\ UNCHANGED <<fecha, temas_filtro, enviar_por_email, destinatario,
                 config_email, sumario, clasificacion, html_resumen, resultado,
                 peticiones, llamadas_email, enviados>>

\* line 299
Clasificar ==
  /\ pc = "clasificar"
  /\ \E f \in Filtros :
       /\ temas_filtro' = f
       /\ clasificacion' = clasificar_por_tema(documentos, f)
  /\ pc' = "resumir"
  /\ traza' = Append(traza, "clasificar")
  /\ UNCHANGED respuesta
  /\ UNCHANGED <<fecha, enviar_por_email, destinatario, config_email, sumario,
                 documentos, html_resumen, resultado, peticiones,
                 llamadas_email, enviados>>

\* the mutation of conteos that counts the documents shown in the HTML
conteos_mostrados(c) ==
  [i \in 1..Len(c) |-> [tema |-> c[i].tema, n |-> Len(mostrados(c[i].docs))]]

\* {k: len(v) for k, v in clasificacion.items()}
conteos(c) == [i \in 1..Len(c) |-> [tema |-> c[i].tema, n |-> Len(c[i].docs)]]

\* the dict of lines 304-310
resultado_digest(f, docs, c, html) ==
  Dict(<<K_fecha, K_total_documentos, K_clasificacion, K_documentos_por_tema,
         K_html>>,
       <<f, Len(docs), conteos(c), c, html>>)

\* lines 302-310
Resumir ==
  /\ pc = "resumir"
  /\ html_resumen' = generar_resumen_html(fecha, clasificacion)
  /\ resultado' = resultado_digest(fecha, documentos, clasificacion, html_resumen')
  /\ pc' = "email"
  /\ traza' = Append(traza, "resumir")
  /\ UNCHANGED respuesta
  /\ UNCHANGED <<fecha, temas_filtro, enviar_por_email, destinatario,
                 config_email, sumario, documentos, clasificacion, peticiones,
                 llamadas_email, enviados>>

\* the mutation of con_email where a failed send becomes the result
con_email_o_error(res, resultado_email) ==
  IF HasKey(resultado_email, K_error) THEN resultado_email
  ELSE Dict(Append(res.keys, K_email), Append(res.kids, resultado_email))

\* line 323: resultado["email"] = resultado_email
con_email(res, resultado_email) ==
  Dict(Append(res.keys, K_email), Append(res.kids, resultado_email))

\* the mutation of line 313 that also asks for documents to send
se_envia_con_documentos(e, d, c) == e /\ d # <<>> /\ c.dado /\ documentos # <<>>

\* line 313
se_envia(e, d, c) == e /\ d # <<>> /\ c.dado

\* lines 313-325
Enviar ==
  /\ pc = "email"
  /\ \E e \in BOOLEAN, d \in Destinatarios, c \in ConfigsEmail, smtp_ok \in BOOLEAN :
       /\ enviar_por_email' = e
       /\ destinatario' = d
       /\ config_email' = c
       /\ IF se_envia(e, d, c)
          THEN LET r == enviar_email_digest(d, html_resumen, c.remitente,
                                            c.password, smtp_ok)
               IN /\ resultado' = con_email(resultado, r.ret)
                  /\ llamadas_email' = llamadas_email + 1
                  /\ enviados' = IF r.smtp
                                 THEN Append(enviados, [para |-> d,
                                        cuerpo |-> html_resumen, ok |-> smtp_ok])
                                 ELSE enviados
          ELSE UNCHANGED <<resultado, llamadas_email, enviados>>
  /\ traza' = Append(traza, "email")
  /\ UNCHANGED respuesta
  /\ pc' = "fin"
  /\ UNCHANGED <<fecha, temas_filtro, sumario, documentos, clasificacion,
                 html_resumen, peticiones>>

NextDigest == ObtenerFalla \/ Obtener \/ Extraer \/ Clasificar \/ Resumir \/ Enviar

Next == NextDigest /\ UNCHANGED extract_vars /\ UNCHANGED chat_vars

Spec == Init /\ [][Next]_vars

(***************************************************************************)
(* The three extractors, called one after another on the same tree         *)
(***************************************************************************)
InitExtract ==
  /\ InitDigest
  /\ arbol \in Arboles
  /\ limite \in Limites
  /\ entradas = <<>>
  /\ docs_chat = <<>>
  /\ docs_digest = <<>>
  /\ nodos = [e \in Extractores |-> <<>>]
  /\ hechas = {}
  /\ InitChatIdle

\* app.py: entries = _extract_sumario_entries(data, limit)
ExtraerEntradas ==
  /\ hechas = {}
  /\ entradas' = _extract_sumario_entries(arbol, limite)
  /\ nodos' = [nodos EXCEPT !["app"] = nodos_entradas(arbol, limite)]
  /\ hechas' = hechas \cup {"app"}
  /\ UNCHANGED <<arbol, limite, docs_chat, docs_digest>>

\* chat page: documentos = extraer_documentos_sumario(sumario, limit)
ExtraerSumario ==
  /\ hechas = {"app"}
  /\ docs_chat' = extraer_documentos_sumario(arbol, limite)
  /\ nodos' = [nodos EXCEPT !["chat"] = nodos_sumario(arbol, limite)]
  /\ hechas' = hechas \cup {"chat"}
  /\ UNCHANGED <<arbol, limite, entradas, docs_digest>>

\* boe_digest.py: documentos = extraer_documentos(sumario)
ExtraerDocumentos ==
  /\ hechas = {"app", "chat"}
  /\ docs_digest' = extraer_documentos(arbol)
  /\ nodos' = [nodos EXCEPT !["digest"] = nodos_documento(arbol)]
  /\ hechas' = hechas \cup {"digest"}
  /\ UNCHANGED <<arbol, limite, entradas, docs_chat>>

NextExtract ==
  /\ ExtraerEntradas \/ ExtraerSumario \/ ExtraerDocumentos
  /\ UNCHANGED digest_vars
  /\ UNCHANGED chat_vars

SpecExtract == InitExtract /\ [][NextExtract]_vars

(***************************************************************************)
(* The chats: app.py and pages/2_Chat_BOE.py.  A session runs one of them; *)
(* its history is st.session_state.history, a list of messages, each with  *)
(* a role and a content.  What the collaborators do (gazette API, web      *)
(* search, agent, model) is drawn; the answer of the turn is computed.     *)
(***************************************************************************)
MaxMensajes == 4

Mensaje(role, content) == [role |-> role, content |-> content]

\* what the user types in st.chat_input
Preguntas == {"Resume el BOE de hoy", "Busca normativa sobre alquiler"}

\* the options of the selectbox of the chat page
TiposBusqueda == {"libre", "sumario", "legislacion", "web"}

R_modelo == "respuesta del modelo"

R_no_pude == "No pude generar una respuesta."

R_error_agente == "Error ejecutando el agente: Exception"

R_error == "Error: Exception"

R_error_sumario == "Error al obtener el sumario: Timeout"

R_sin_documentos == "No se encontraron documentos en el sumario"

R_error_legislacion == "Error al buscar legislacion: Timeout"

R_sin_normas == "No se encontraron normas que coincidan con la busqueda."

R_sin_resultados == "No se encontraron resultados en la busqueda web."

\* the texts of the turns that ended in an error of a collaborator
RespuestasDeFallo ==
  {R_error_agente, R_error, R_error_sumario, R_error_legislacion}

\* What the model returns: response.content is a str, a list of blocks (each
\* with a type and, for the type "text", a text) or something else; or the
\* call raises.  SinLLM: the model was not called.
SinLLM == [t |-> "nada", s |-> "", items |-> <<>>]

Excepcion == [t |-> "excepcion", s |-> "", items |-> <<>>]

ContenidoStr(s) == [t |-> "str", s |-> s, items |-> <<>>]

ContenidoLista(items) == [t |-> "list", s |-> "", items |-> items]

ContenidoOtro == [t |-> "otro", s |-> "", items |-> <<>>]

Bloque(type, text) == [type |-> type, text |-> text]

ContenidosLLM ==
  {ContenidoStr(R_modelo), ContenidoStr(""), ContenidoOtro,
   ContenidoLista(<<>>),
   ContenidoLista(<<Bloque("text", "a")>>),
   ContenidoLista(<<Bloque("tool_use", ""), Bloque("text", "a"), Bloque("text", "b")>>),
   ContenidoLista(<<Bloque("text", ""), Bloque("text", "b")>>),
   ContenidoLista(<<Bloque("tool_use", "")>>)}

RespuestasLLM == ContenidosLLM \cup {Excepcion}

RECURSIVE primer_bloque_texto(_, _)
\* the index of the first item from the i-th on with item.get('type') ==
\* 'text', 0 when there is none
primer_bloque_texto(items, i) ==
  IF i > Len(items) THEN 0
  ELSE IF items[i].type = "text" THEN i
  ELSE primer_bloque_texto(items, i + 1)

\* chat page, lines 194-207, for the response r of modelo.invoke
generar_respuesta_con_contexto(r) ==
  CASE r.t = "excepcion" -> R_error
    [] r.t = "str" -> r.s
    [] r.t = "list" ->
         (LET i == primer_bloque_texto(r.items, 1)
          IN IF i = 0 THEN R_no_pude ELSE r.items[i].text)
    [] OTHER -> R_no_pude

\* chat page, lines 345-351: respuesta after the free question, "" at first
respuesta_libre(r) ==
  CASE r.t = "str" -> r.s
    [] r.t = "list" ->
         (LET i == primer_bloque_texto(r.items, 1)
          IN IF i = 0 THEN "" ELSE r.items[i].text)
    [] OTHER -> ""

\* the mutation of lines 353-354 that keeps an empty answer
sin_vacia_tal_cual(texto) == texto

\* `if not respuesta: respuesta = "No pude generar una respuesta."` (chat page
\* 353-354, app.py 260-261)
sin_vacia(texto) == IF texto = "" THEN R_no_pude ELSE texto

\* what the data source of the mode did: it was not asked ("ninguna"), it
\* answered with an error, with nothing, with data, or the code handling it
\* raised
Fuentes == {"error", "vacio", "datos", "excepcion"}

\* chat page, lines 248-357: respuesta for the mode, the outcome of its data
\* source and the response of the model
respuesta_turno(tipo, origen, r) ==
  IF origen = "excepcion" \/ (tipo = "libre" /\ r.t = "excepcion")
  THEN R_error
  ELSE sin_vacia(
    CASE tipo = "sumario" ->
           (IF origen = "error" THEN R_error_sumario
            ELSE IF origen = "vacio" THEN R_sin_documentos
            ELSE generar_respuesta_con_contexto(r))
      [] tipo = "legislacion" ->
           (IF origen = "error" THEN R_error_legislacion
            ELSE IF origen = "vacio" THEN R_sin_normas
            ELSE generar_respuesta_con_contexto(r))
      [] tipo = "web" ->
           (IF origen = "datos" THEN generar_respuesta_con_contexto(r)
            ELSE R_sin_resultados)
      [] OTHER -> respuesta_libre(r))

\* app.py: the messages of the agent, each with its class and its content
MensajeAgente(tipo, content) == [tipo |-> tipo, content |-> content]

\* the history as the messages it holds: HumanMessage and AIMessage
de_historia(h) ==
  [i \in 1..Len(h) |->
     MensajeAgente(IF h[i].role = "user" THEN "human" ELSE "ai",
                   ContenidoStr(h[i].content))]

\* line 236: the system prompt, the history, the question
mensajes_de_entrada(history_before, user_text) ==
  <<MensajeAgente("system", ContenidoStr("system_text"))>>
  \o de_historia(history_before)
  \o <<MensajeAgente("human", ContenidoStr(user_text))>>

\* what the agent adds to the messages it was given
GeneradosAgente ==
  {<<MensajeAgente("ai", c)>> : c \in ContenidosLLM}
  \cup {<<>>,
        <<MensajeAgente("ai", ContenidoLista(<<Bloque("tool_use", "")>>)),
          MensajeAgente("tool", ContenidoStr("sumario")),
          MensajeAgente("ai", ContenidoStr(R_modelo))>>}

RECURSIVE answer_de(_, _)
\* lines 245-258: the loop over reversed(result["messages"]) from the i-th
\* message down, with answer = "" so far
answer_de(mensajes, i) ==
  IF i = 0 THEN ""
  ELSE IF mensajes[i].tipo # "ai" THEN answer_de(mensajes, i - 1)
  ELSE IF mensajes[i].content.t = "str" THEN mensajes[i].content.s
  ELSE IF mensajes[i].content.t = "list"
  THEN LET j == primer_bloque_texto(mensajes[i].content.items, 1)
           answer == IF j = 0 THEN "" ELSE mensajes[i].content.items[j].text
       IN IF answer # "" THEN answer ELSE answer_de(mensajes, i - 1)
  ELSE answer_de(mensajes, i - 1)

\* lines 234-264: answer, for what agent_executor.invoke did with the
\* messages: it raised, or it returned them with `generados` added
answer_app(mensajes, generados) ==
  IF generados.t = "excepcion" THEN R_error_agente
  ELSE sin_vacia(answer_de(mensajes \o generados.items,
                           Len(mensajes) + Len(generados.items)))

\* the mutation of lines 268-271 that keeps only the turn
tras_turno_sin_historia(history_before, user_text, answer) ==
  <<Mensaje("user", user_text), Mensaje("assistant", answer)>>

\* app.py, lines 268-271
tras_turno(history_before, user_text, answer) ==
  history_before \o <<Mensaje("user", user_text), Mensaje("assistant", answer)>>

InitChat ==
  /\ InitDigest
  /\ InitExtractIdle
  /\ pagina \in {"app", "chat"}
  /\ history = <<>>
  /\ pc_chat = "idle"
  /\ tipo_busqueda = "libre"
  /\ history_antes = <<>>
  /\ accion = "ninguna"
  /\ fuente = "ninguna"
  /\ llm = SinLLM

\* app.py, lines 226-271: a chat turn
TurnoApp ==
  /\ pagina = "app"
  /\ Len(history) + 2 <= MaxMensajes
  /\ \E user_text \in Preguntas,
        g \in {Excepcion} \cup {[t |-> "mensajes", s |-> "", items |-> m] :
                                 m \in GeneradosAgente} :
       /\ history' = tras_turno(history, user_text,
                       answer_app(mensajes_de_entrada(history, user_text), g))
       /\ llm' = g
  /\ fuente' = "ninguna"
  /\ history_antes' = history
  /\ accion' = "turno"
  /\ UNCHANGED <<pagina, pc_chat, tipo_busqueda>>

\* chat page, lines 235-240: the user's message goes into the history
EnviarPregunta ==
  /\ pagina = "chat"
  /\ pc_chat = "idle"
  /\ Len(history) + 2 <= MaxMensajes
  /\ \E user_text \in Preguntas :
       history' = Append(history, Mensaje("user", user_text))
  /\ tipo_busqueda' \in TiposBusqueda
  /\ pc_chat' = "procesando"
  /\ history_antes' = history
  /\ accion' = "turno"
  /\ fuente' = "ninguna"
  /\ llm' = SinLLM
  /\ UNCHANGED pagina

\* chat page, lines 243-362: the answer goes into the history
Responder ==
  /\ pagina = "chat"
  /\ pc_chat = "procesando"
  /\ \E f \in (IF tipo_busqueda = "libre" THEN {"ninguna"} ELSE Fuentes) :
       \E r \in (IF f = "datos" \/ tipo_busqueda = "libre"
                 THEN RespuestasLLM ELSE {SinLLM}) :
         /\ history' = Append(history,
                         Mensaje("assistant", respuesta_turno(tipo_busqueda, f, r)))
         /\ fuente' = f
         /\ llm' = r
  /\ pc_chat' = "idle"
  /\ UNCHANGED <<pagina, tipo_busqueda, history_antes, accion>>

\* the button "Borrar chat": st.session_state.clear(), and the history is
\* created again empty (app.py 20-21 and 211-212, chat page 49-51 and 216-217)
BorrarChat ==
  /\ pc_chat = "idle"
  /\ history' = <<>>
  /\ history_antes' = history
  /\ accion' = "borrar"
  /\ UNCHANGED <<pagina, pc_chat, tipo_busqueda, fuente, llm>>

NextChat ==
  /\ TurnoApp \/ EnviarPregunta \/ Responder \/ BorrarChat
  /\ UNCHANGED digest_vars
  /\ UNCHANGED extract_vars

SpecChat == InitChat /\ [][NextChat]_vars

(***************************************************************************)
(* Properties                                                              *)
(***************************************************************************)
\* the step has been taken in this call
Hecho(paso) == \E i \in 1..Len(traza) : traza[i] = paso

\* clasificar_por_tema has just returned: documentos and temas_filtro are its
\* arguments and clasificacion its result
Clasificado == pc = "resumir"

\* generar_resumen_html has just returned html_resumen for clasificacion
Resumido == pc = "email"

\* the number of times x occurs in the sequence s
Veces(s, x) == Cardinality({i \in 1..Len(s) : s[i] = x})

RECURSIVE Aplanar(_, _)
\* the documents of the buckets from the i-th on, one after another
Aplanar(c, i) == IF i > Len(c) THEN <<>> ELSE c[i].docs \o Aplanar(c, i + 1)

\* the topic names of TEMAS_BOE
NombresTemas == {TEMAS_BOE[i].tema : i \in 1..Len(TEMAS_BOE)}

\* C1: when clasificar_por_tema returns, whatever the filter, every extracted
\* document is in exactly one bucket: the buckets have different names, and
\* each document occurs in all the buckets together as many times as in the
\* input list, so that none is dropped and none duplicated.
C1_ClasificacionTotal ==
  Clasificado =>
    /\ \A i, j \in 1..Len(clasificacion) :
         clasificacion[i].tema = clasificacion[j].tema => i = j
    /\ Len(Aplanar(clasificacion, 1)) = Len(documentos)
    /\ \A k \in 1..Len(documentos) :
         Veces(Aplanar(clasificacion, 1), documentos[k])
           = Veces(documentos, documentos[k])

\* C1 witness: two documents classified into two buckets under a filter
C1_Witness ==
  /\ Clasificado
  /\ Len(documentos) = 2
  /\ Len(clasificacion) = 2
  /\ temas_filtro.dado /\ temas_filtro.nombres # <<>>

\* the topic is active under the filter of this call
Activo(tema) ==
  \/ ~temas_filtro.dado
  \/ temas_filtro.nombres = <<>>
  \/ tema \in Range(temas_filtro.nombres)

\* the positions in TEMAS_BOE of the active topics with a keyword in the
\* haystack of doc
Coincidentes(doc) ==
  {i \in 1..Len(TEMAS_BOE) :
     /\ Activo(TEMAS_BOE[i].tema)
     /\ \E kw \in Range(TEMAS_BOE[i].keywords) : Contains(texto_busqueda(doc), kw)}

\* s in the opposite order
Invertir(s) == [i \in 1..Len(s) |-> s[Len(s) + 1 - i]]

\* TEMAS_BOE with every keyword list in the opposite order
TemasInvertidos ==
  [i \in 1..Len(TEMAS_BOE) |->
     [tema |-> TEMAS_BOE[i].tema, keywords |-> Invertir(TEMAS_BOE[i].keywords)]]

\* C2: a document whose haystack has keywords of two or more active topics is
\* in the bucket of the one declared first in TEMAS_BOE, and the
\* classification is the same with every keyword list in the opposite order.
C2_PrimerTemaGana ==
  Clasificado =>
    /\ \A b \in 1..Len(clasificacion) :
         \A d \in 1..Len(clasificacion[b].docs) :
           LET m == Coincidentes(clasificacion[b].docs[d])
           IN Cardinality(m) >= 2 =>
                clasificacion[b].tema
                  = TEMAS_BOE[CHOOSE i \in m : \A j \in m : i <= j].tema
    /\ clasificar(TemasInvertidos, documentos, temas_filtro) = clasificacion

\* C2 witness: "Contrato de empresa" (a keyword of empleo, then one of
\* economi'a) ends in economi'a, the topic declared first
C2_Witness ==
  /\ Clasificado
  /\ \E b \in 1..Len(clasificacion) :
       /\ clasificacion[b].tema = "economi'a"
       /\ \E d \in 1..Len(clasificacion[b].docs) :
            /\ clasificacion[b].docs[d].titulo = Str(T_contrato)
            /\ Cardinality(Coincidentes(clasificacion[b].docs[d])) >= 2

\* C10: the classification returned has no bucket without documents
C10_SinCategoriasVacias ==
  Clasificado =>
    \A b \in 1..Len(clasificacion) : clasificacion[b].docs # <<>>

\* C10 witness: documents classified under a filter, most topics left empty
C10_Witness ==
  /\ Clasificado
  /\ temas_filtro.dado
  /\ Len(documentos) >= 2
  /\ Len(clasificacion) = 1

RECURSIVE Preorden(_)
\* every node of the tree x, a node before the nodes below it and those
\* below it in the order of its items
Preorden(x) ==
  <<x>> \o Concatenar([i \in 1..Len(x.kids) |-> Preorden(x.kids[i])],
                      1, Len(x.kids))

\* the first n elements of s, all of them when there are fewer
Primeros(s, n) == [i \in 1..(IF n < Len(s) THEN n ELSE Len(s)) |-> s[i]]

\* a key that is "titulo", "title" or "nombre" up to case
ClaveTitulo(x) ==
  \E i \in 1..Len(x.keys) : Lower(x.keys[i]) \in {K_titulo, K_title, K_nombre}

\* a key that starts with "url" up to case
ClaveUrl(x) == \E i \in 1..Len(x.keys) : StartsWith(Lower(x.keys[i]), K_url)

\* the match rule: a mapping with a title-like key and a url-like key
Califica(x) == x.t = "dict" /\ ClaveTitulo(x) /\ ClaveUrl(x)

\* C3: each limited extractor returns the records of the qualifying nodes in
\* depth-first pre-order: all N of them when limit >= N, the first `limit`
\* of them when limit < N, never more than `limit`.
C3_PrimerosEnPreorden ==
  LET q == SelectSeq(Preorden(arbol), Califica)
  IN /\ "app" \in hechas =>
          /\ nodos["app"] = Primeros(q, limite)
          /\ entradas = [i \in 1..Len(nodos["app"]) |-> Entrada(nodos["app"][i])]
          /\ Len(entradas) <= limite
     /\ "chat" \in hechas =>
          /\ nodos["chat"] = Primeros(q, limite)
          /\ docs_chat
               = [i \in 1..Len(nodos["chat"]) |-> DocumentoChat(nodos["chat"][i])]
          /\ Len(docs_chat) <= limite

\* C3 for _extract_sumario_entries alone, whose test is the match rule
PrimerosEntradas ==
  "app" \in hechas =>
    /\ nodos["app"] = Primeros(SelectSeq(Preorden(arbol), Califica), limite)
    /\ entradas = [i \in 1..Len(nodos["app"]) |-> Entrada(nodos["app"][i])]
    /\ Len(entradas) <= limite

\* C3 for extraer_documentos_sumario with its own test in place of the match
\* rule: a key "titulo" and a key that starts with "url", both in lower case
PrimerosSumario ==
  "chat" \in hechas =>
    /\ nodos["chat"] = Primeros(SelectSeq(Preorden(arbol), EsDocumentoChat), limite)
    /\ docs_chat
         = [i \in 1..Len(nodos["chat"]) |-> DocumentoChat(nodos["chat"][i])]
    /\ Len(docs_chat) <= limite

\* three nodes qualify for both extractors, one nested in another, and both
\* have returned the first two
PrimerosCorte ==
  /\ hechas = Extractores
  /\ limite = 2
  /\ Len(SelectSeq(Preorden(arbol), Califica)) = 3
  /\ Len(SelectSeq(Preorden(arbol), EsDocumentoChat)) = 3
  /\ \E i \in 1..Len(arbol.kids[1].kids) :
       HasKey(arbol.kids[1].kids[i], K_item)
  /\ Len(entradas) = 2
  /\ Len(docs_chat) = 2

\* C4: every node an extractor returns a record for has a title-like key
\* and a url-like key; a node with only one of the two is never returned.
C4_TituloYUrl ==
  \A e \in hechas :
    /\ \A i \in 1..Len(nodos[e]) : ClaveTitulo(nodos[e][i]) /\ ClaveUrl(nodos[e][i])
    /\ Len(nodos[e])
         = Len(CASE e = "app" -> entradas
                 [] e = "chat" -> docs_chat
                 [] OTHER -> docs_digest)

\* C4 witness: the tree has a node with a title and no url, one with a url
\* and no title, and a document; the three extractors have returned
C4_Witness ==
  /\ hechas = Extractores
  /\ limite = MaxLimite
  /\ \E i, j \in 1..Len(Preorden(arbol)) :
       /\ ClaveTitulo(Preorden(arbol)[i]) /\ ~ClaveUrl(Preorden(arbol)[i])
       /\ ClaveUrl(Preorden(arbol)[j]) /\ ~ClaveTitulo(Preorden(arbol)[j])
  /\ Len(docs_digest) = 1 /\ Len(docs_chat) = 1 /\ Len(entradas) = 1

\* C5: when the GET fails, generar_digest_completo returns at once a result
\* whose only key is "error" (no html, no counts, no email), and
\* enviar_email_digest is not called.
C5_FalloSoloError ==
  respuesta = "fallo" =>
    /\ pc = "fin"
    /\ traza = <<"obtener">>
    /\ resultado.t = "dict"
    /\ resultado.keys = <<K_error>>
    /\ resultado.kids[1].s \in ErroresFetch
    /\ llamadas_email = 0
    /\ enviados = <<>>

\* C5 witness: the call has returned after a failed GET
C5_Witness == respuesta = "fallo" /\ pc = "fin" /\ HasKey(resultado, K_error)

\* C6: when the GET succeeds and the requested send fails, the result has
\* html, total_documentos and the counts of the digest and, besides, the
\* failure under "email"; it is not an error result and the call returns.
C6_FalloEmailAislado ==
  (/\ llamadas_email > 0
   /\ (enviados = <<>> \/ ~enviados[Len(enviados)].ok)) =>
    /\ pc = "fin"
    /\ resultado.keys = <<K_fecha, K_total_documentos, K_clasificacion,
                          K_documentos_por_tema, K_html, K_email>>
    /\ Get(resultado, K_html, Null) = html_resumen
    /\ html_resumen = generar_resumen_html(fecha, clasificacion)
    /\ Get(resultado, K_total_documentos, Null) = Len(documentos)
    /\ Get(resultado, K_clasificacion, Null) = conteos(clasificacion)
    /\ HasKey(Get(resultado, K_email, Null), K_error)

\* C6 witness: a digest of two documents whose send failed in SMTP
C6_Witness ==
  /\ pc = "fin"
  /\ Len(documentos) = 2
  /\ enviados # <<>> /\ ~enviados[1].ok
  /\ HasKey(resultado, K_html)
  /\ HasKey(resultado, K_email)

\* the number of parts of the HTML with that tag and topic
Partes(tag, tema) ==
  Cardinality({i \in 1..Len(html_resumen) :
                 html_resumen[i].tag = tag /\ html_resumen[i].tema = tema})

\* C7: in the HTML, every bucket has one heading that shows its number of
\* documents, min(count, 10) document entries, and an overflow note exactly
\* when count > 10, which shows count - 10; nothing else has a section; the
\* total shown is the sum of the sizes of the buckets.
C7_ResumenFiel ==
  Resumido =>
    /\ \A b \in 1..Len(clasificacion) :
         LET tema == clasificacion[b].tema
             count == Len(clasificacion[b].docs)
         IN /\ Partes("tema", tema) = 1
            /\ \A i \in 1..Len(html_resumen) :
                 html_resumen[i].tag = "tema" /\ html_resumen[i].tema = tema
                   => html_resumen[i].n = count
            /\ Partes("documento", tema) = (IF count < 10 THEN count ELSE 10)
            /\ Partes("mas", tema) = (IF count > 10 THEN 1 ELSE 0)
            /\ \A i \in 1..Len(html_resumen) :
                 html_resumen[i].tag = "mas" /\ html_resumen[i].tema = tema
                   => html_resumen[i].n = count - 10
    /\ \A i \in 1..Len(html_resumen) :
         html_resumen[i].tag \in {"tema", "documento", "mas"} =>
           \E b \in 1..Len(clasificacion) :
             clasificacion[b].tema = html_resumen[i].tema
    /\ Cardinality({i \in 1..Len(html_resumen) : html_resumen[i].tag = "total"}) = 1
    /\ \A i \in 1..Len(html_resumen) :
         html_resumen[i].tag = "total" =>
           html_resumen[i].n = Len(Aplanar(clasificacion, 1))

\* C7 witness: a bucket of more than ten documents and one of fewer
C7_Witness ==
  /\ Resumido
  /\ \E a, b \in 1..Len(clasificacion) :
       /\ Len(clasificacion[a].docs) > 10
       /\ Len(clasificacion[b].docs) < 10
  /\ \E i \in 1..Len(html_resumen) : html_resumen[i].tag = "mas"

\* the filter without the names that are no topic of TEMAS_BOE
SinDesconocidos(f) ==
  [dado |-> f.dado, nombres |-> SelectSeq(f.nombres, LAMBDA n : n \in NombresTemas)]

\* the filter names a topic of TEMAS_BOE
ConocidoEn(f) == \E n \in Range(f.nombres) : n \in NombresTemas

\* C8 as claimed: the classification is the one of the filter without its
\* unknown names, also when every name of the filter is unknown.
C8_Original ==
  Clasificado =>
    clasificacion = clasificar_por_tema(documentos, SinDesconocidos(temas_filtro))

\* C8 as amended: the unknown names of a filter that also names a topic of
\* TEMAS_BOE are ignored; a non-empty filter of unknown names only leaves no
\* topic active, and every document goes to "otros".
C8_DesconocidosIgnorados ==
  Clasificado =>
    /\ (ConocidoEn(temas_filtro) \/ temas_filtro.nombres = <<>>) =>
         clasificacion
           = clasificar_por_tema(documentos, SinDesconocidos(temas_filtro))
    /\ (temas_filtro.nombres # <<>> /\ ~ConocidoEn(temas_filtro)) =>
         clasificacion
           = (IF documentos = <<>> THEN <<>>
              ELSE <<[tema |-> "otros", docs |-> documentos]>>)

\* C8 witness: an unknown name before a known one, and a document of the
\* known topic classified under it
C8_Witness ==
  /\ Clasificado
  /\ temas_filtro.nombres = <<"desconocido", "empleo">>
  /\ Len(documentos) = 2
  /\ \E b \in 1..Len(clasificacion) : clasificacion[b].tema = "empleo"

\* the summary of the end-to-end scenario
Escenario == Raiz(<<DocEmpleo, DocVivienda>>)

\* C9: for the scenario and no filter, two documents are extracted, the
\* first goes to "empleo" and the second to "vivienda" and nothing else has
\* a bucket, and the HTML has two sections of one document each, no overflow
\* note and the total 2.
C9_Escenario ==
  (sumario = Escenario /\ ~temas_filtro.dado) =>
    /\ Hecho("extraer") =>
         documentos = <<Documento(DocEmpleo), Documento(DocVivienda)>>
    /\ Hecho("clasificar") =>
         clasificacion = <<[tema |-> "empleo", docs |-> <<Documento(DocEmpleo)>>],
                           [tema |-> "vivienda", docs |-> <<Documento(DocVivienda)>>]>>
    /\ Hecho("resumir") =>
         /\ [i \in 1..Len(html_resumen) |-> html_resumen[i].tag]
              = <<"fecha", "total", "tema", "documento", "seccion", "pdf",
                  "tema", "documento", "departamento", "html">>
         /\ html_resumen[2].n = 2
         /\ html_resumen[3].tema = "empleo" /\ html_resumen[3].n = 1
         /\ html_resumen[4].text = T_empleo
         /\ html_resumen[7].tema = "vivienda" /\ html_resumen[7].n = 1
         /\ html_resumen[8].text = T_vivienda
         /\ Get(resultado, K_total_documentos, Null) = 2

\* C9 witness: the scenario has run to the end without a filter
C9_Witness ==
  /\ sumario = Escenario
  /\ ~temas_filtro.dado
  /\ pc = "fin"
  /\ HasKey(resultado, K_html)

\* C11: every call of enviar_email_digest returns a success outcome or an
\* error outcome, and when the sender address or the password is missing or
\* empty it returns the error outcome without opening an SMTP connection.
C11_CredencialesRequeridas ==
  llamadas_email > 0 =>
    LET r == Get(resultado, K_email, Null)
    IN /\ pc = "fin"
       /\ r.t = "dict"
       /\ \/ /\ r.keys = <<K_error>>
             /\ r.kids[1].t = "str"
          \/ /\ r.keys = <<K_status, K_mensaje>>
             /\ r.kids[1] = Str(M_success)
             /\ enviados # <<>> /\ enviados[Len(enviados)].ok
       /\ (config_email.remitente = <<>> \/ config_email.password = <<>>) =>
            /\ r = Dict(<<K_error>>, <<Str(M_requiere)>>)
            /\ enviados = <<>>

\* C11 witness: enviar_email_digest was called with a password and without a
\* sender address, and returned the error
C11_Witness ==
  /\ llamadas_email = 1
  /\ config_email.remitente = <<>>
  /\ config_email.password # <<>>
  /\ HasKey(Get(resultado, K_email, Null), K_error)
  /\ enviados = <<>>

\* the steps of generar_digest_completo, in the order of the code
PasosEnOrden == <<"obtener", "extraer", "clasificar", "resumir", "email">>

\* C12: the steps of a run occur in the order fetch, extract, classify,
\* render, mail send; one fetch is issued per run; extraction, classification
\* and rendering happen only after a fetch that succeeded; at most one mail
\* is sent, after rendering, and its body is the rendered HTML.
C12_OrdenDePasos ==
  /\ traza = SubSeq(PasosEnOrden, 1, Len(traza))
  /\ peticiones = Veces(traza, "obtener")
  /\ peticiones <= 1
  /\ (pc # "obtener") => peticiones = 1
  /\ (Hecho("extraer") \/ Hecho("clasificar") \/ Hecho("resumir")) =>
       /\ respuesta = "json"
       /\ traza[1] = "obtener"
  /\ llamadas_email <= 1
  /\ Len(enviados) <= llamadas_email
  /\ llamadas_email = 1 => traza = PasosEnOrden
  /\ enviados # <<>> =>
       /\ enviados[1].cuerpo = html_resumen
       /\ html_resumen = generar_resumen_html(fecha, clasificacion)

\* C12 witness: a run that took the five steps and handed one mail to SMTP
C12_Witness ==
  /\ pc = "fin"
  /\ traza = PasosEnOrden
  /\ peticiones = 1
  /\ Len(enviados) = 1
  /\ documentos # <<>>

C14_CalificadosDevueltos ==
  "digest" \in hechas =>
    /\ nodos["digest"] = SelectSeq(Preorden(arbol), Califica)
    /\ Len(docs_digest) = Len(SelectSeq(Preorden(arbol), Califica))

\* extraer_documentos returns a document for exactly the mapping nodes with
\* the key "titulo" and a key that starts with "url", both in lower case
SoloMinusculas ==
  "digest" \in hechas =>
    nodos["digest"] = SelectSeq(Preorden(arbol), EsDocumento)

RECURSIVE Debajo(_, _)
\* x is a proper descendant of y
Debajo(x, y) ==
  \E i \in 1..Len(y.kids) : y.kids[i] = x \/ Debajo(x, y.kids[i])

\* of the nodes of `arbol` that pass Test, in pre-order, every one that lies
\* below another and is among the first n is in h, after the other; and h
\* has at most n nodes
ParesAnidados(h, n, Test(_)) ==
  LET q == SelectSeq(Preorden(arbol), Test)
  IN /\ Len(h) <= n
     /\ \A a, b \in 1..Len(q) :
          (a < b /\ Debajo(q[b], q[a]) /\ b <= n) =>
            \E ia, ib \in 1..Len(h) : ia < ib /\ h[ia] = q[a] /\ h[ib] = q[b]

\* C15 as stated: a match does not prune the descent: of two qualifying
\* nodes, one below the other, the extractors return both, the outer one
\* first, unless the limit is reached before; once `limit` results are
\* collected no node is added.
C15_SinPoda ==
  /\ "app" \in hechas => ParesAnidados(nodos["app"], limite, Califica)
  /\ "chat" \in hechas => ParesAnidados(nodos["chat"], limite, Califica)
  /\ "digest" \in hechas =>
       ParesAnidados(nodos["digest"], Len(Preorden(arbol)), Califica)

\* C15 with each extractor's own test for the nodes that qualify
SinPodaPropia ==
  /\ "app" \in hechas => ParesAnidados(nodos["app"], limite, EsEntrada)
  /\ "chat" \in hechas => ParesAnidados(nodos["chat"], limite, EsDocumentoChat)
  /\ "digest" \in hechas =>
       ParesAnidados(nodos["digest"], Len(Preorden(arbol)), EsDocumento)

\* a document nested in a document, both returned by the three extractors
SinPodaAnidados ==
  /\ hechas = Extractores
  /\ limite = 2
  /\ Len(nodos["app"]) = 2 /\ Debajo(nodos["app"][2], nodos["app"][1])
  /\ nodos["chat"] = nodos["app"]
  /\ nodos["digest"] = nodos["app"]

\* whether x has a key that is kl up to case
TieneClave(x, kl) == \E i \in 1..Len(x.keys) : Lower(x.keys[i]) = kl

\* the value under the key that is kl up to case (the last such key of the
\* node, when several are)
ValorDe(x, kl) ==
  x.kids[CHOOSE i \in 1..Len(x.keys) :
           /\ Lower(x.keys[i]) = kl
           /\ \A j \in (i + 1)..Len(x.keys) : Lower(x.keys[j]) # kl]

\* the title keys in their priority order
ClavesTitulo == <<K_titulo, K_title, K_nombre>>

\* C16 as stated: the display title of an entry is the value of the first
\* title key present on its node, in the order titulo, title, nombre.
C16_Original ==
  "app" \in hechas =>
    \A i \in 1..Len(entradas) :
      LET x == nodos["app"][i]
          TienePrioridad(kl) == TieneClave(x, kl)
          presentes == SelectSeq(ClavesTitulo, TienePrioridad)
      IN entradas[i].titulo = ValorDe(x, presentes[1])

\* C16: the display title of an entry is the value of the first title key,
\* in the order titulo, title, nombre, that is present on the node with a
\* value that is not empty nor None, and "(sin titulo)" when there is none.
C16_PrimerTituloNoVacio ==
  "app" \in hechas =>
    \A i \in 1..Len(entradas) :
      LET x == nodos["app"][i]
          ConValor(kl) == TieneClave(x, kl) /\ Truthy(ValorDe(x, kl))
          validas == SelectSeq(ClavesTitulo, ConValor)
      IN entradas[i].titulo
           = IF validas = <<>> THEN Str(SinTituloApp) ELSE ValorDe(x, validas[1])

\* C16 witness: an entry made from a node with the three title keys, all
\* with text, and the key nombre first
C16_Witness ==
  /\ "app" \in hechas
  /\ nodos["app"] = <<TresTitulos>>
  /\ entradas[1].titulo = Str(T_empleo)

\* an entry made from a node with the keys titulo and Titulo: its title is
\* that of the later key
TituloUltimaClave ==
  /\ "app" \in hechas
  /\ nodos["app"] = <<TituloRepetido>>
  /\ entradas[1].titulo = Str(T_fiscal)

\* an entry made from a node whose titulo is empty: its title is that of
\* the key title
TituloDeRespaldo ==
  /\ "app" \in hechas
  /\ nodos["app"] = <<TituloVacio>>
  /\ entradas[1].titulo = Str(T_general)

\* the names of TEMAS_BOE, in its order
TodosLosTemas == [i \in 1..Len(TEMAS_BOE) |-> TEMAS_BOE[i].tema]

\* C17: classifying with an empty filter gives what classifying with no
\* filter gives, which is classifying with every topic; and the digest page
\* passes no filter when no topic is ticked.
C17_FiltroVacioEsNinguno ==
  Clasificado =>
    /\ clasificar_por_tema(documentos, Filtro(<<>>))
         = clasificar_por_tema(documentos, SinFiltro)
    /\ (temas_filtro.nombres = <<>>) =>
         clasificacion = clasificar_por_tema(documentos, Filtro(TodosLosTemas))
    /\ filtro_de_pagina(<<>>) = SinFiltro

\* C17 witness: two documents of different topics classified with the empty
\* list as filter, each under its topic
C17_Witness ==
  /\ Clasificado
  /\ temas_filtro = Filtro(<<>>)
  /\ Len(documentos) = 2
  /\ Len(clasificacion) = 2
  /\ clasificacion[1].tema # "otros" /\ clasificacion[2].tema # "otros"

\* the body the GET answered with has no node that qualifies as a document
SinCalificados ==
  /\ respuesta = "json"
  /\ SelectSeq(Preorden(sumario), Califica) = <<>>

\* the result of a digest without documents
ResultadoVacio ==
  /\ resultado.t = "dict"
  /\ ~HasKey(resultado, K_error)
  /\ Get(resultado, K_total_documentos, Null) = 0
  /\ Get(resultado, K_clasificacion, Null) = <<>>
  /\ Get(resultado, K_documentos_por_tema, Null) = <<>>
  /\ HasKey(resultado, K_html)
  /\ Get(resultado, K_html, Null) = generar_resumen_html(fecha, <<>>)

\* C18 as stated: a fetched summary of unexpected shape or without
\* qualifying nodes (a scalar, an empty container, nodes without title or
\* url) never produces an error: the run does not raise, extraction returns
\* the empty list, and the result is a digest of zero documents, with an
\* empty classification and the rendered HTML.
C18_FormaInesperada ==
  SinCalificados =>
    /\ pc # "excepcion"
    /\ Hecho("extraer") => documentos = <<>>
    /\ pc = "fin" => (Hecho("resumir") /\ ResultadoVacio)

\* when the body is not None and does not hold "error" (as a key of the
\* dict, an element of the list or a piece of the str), C18 holds
FormaInesperadaSinError ==
  (SinCalificados /\ sumario.t # "null" /\ ~contiene_error(sumario)) =>
    /\ pc # "excepcion"
    /\ Hecho("extraer") => documentos = <<>>
    /\ pc = "fin" => (Hecho("resumir") /\ ResultadoVacio)

\* the run of a body that is a str without "error" has returned
FormaInesperadaEscalar ==
  /\ pc = "fin"
  /\ sumario = Str(T_general)
  /\ ResultadoVacio

\* the body was None and the run raised at line 292
CuerpoNulo == respuesta = "json" /\ sumario = Null /\ pc = "excepcion"

\* html.escape of one character, of a text
EscaparChar(c) ==
  CASE c = "&" -> <<"&", "a", "m", "p", ";">>
    [] c = "<" -> <<"&", "l", "t", ";">>
    [] c = ">" -> <<"&", "g", "t", ";">>
    [] OTHER -> <<c>>

Escapar(s) == Concatenar([i \in 1..Len(s) |-> EscaparChar(s[i])], 1, Len(s))

\* the texts of the parts of the HTML with that tag, in order
Textos(tag) ==
  LET EsTag(p) == p.tag = tag
      ps == SelectSeq(html_resumen, EsTag)
  IN [i \in 1..Len(ps) |-> ps[i].text]

\* the documents the HTML shows, in order: the first ten of each bucket
RECURSIVE Mostrados(_, _)
Mostrados(c, i) ==
  IF i > Len(c) THEN <<>> ELSE mostrados(c[i].docs) \o Mostrados(c, i + 1)

\* the texts under `campo` of the documents shown that have it not empty
TextosDe(campo(_)) ==
  LET m == Mostrados(clasificacion, 1)
      ConTexto(d) == Truthy(campo(d))
      ds == SelectSeq(m, ConTexto)
  IN [i \in 1..Len(ds) |-> PyStr(campo(ds[i]))]

Titulo(d) == d.titulo
Seccion(d) == d.seccion
Departamento(d) == d.departamento

\* C19 as stated: the title, the section and the department of every
\* document shown are HTML-escaped when they are put in the HTML; a text with
\* "<", ">" or "&" appears escaped and never as it is.
C19_TextoEscapado ==
  Resumido =>
    /\ Textos("documento")
         = [i \in 1..Len(Mostrados(clasificacion, 1)) |->
              Escapar(PyStr(Mostrados(clasificacion, 1)[i].titulo))]
    /\ Textos("seccion")
         = [i \in 1..Len(TextosDe(Seccion)) |-> Escapar(TextosDe(Seccion)[i])]
    /\ Textos("departamento")
         = [i \in 1..Len(TextosDe(Departamento)) |->
              Escapar(TextosDe(Departamento)[i])]
    /\ \A i \in 1..Len(html_resumen) :
         html_resumen[i].tag \in {"documento", "seccion", "departamento"} =>
           \A k \in 1..Len(html_resumen[i].text) :
             html_resumen[i].text[k] \notin {"<", ">"}

\* the title, the section and the department of every document shown are in
\* the HTML as they are
TextoTalCual ==
  Resumido =>
    /\ Textos("documento")
         = [i \in 1..Len(Mostrados(clasificacion, 1)) |->
              PyStr(Mostrados(clasificacion, 1)[i].titulo)]
    /\ Textos("seccion") = TextosDe(Seccion)
    /\ Textos("departamento") = TextosDe(Departamento)

\* the HTML of a digest with the document whose title holds "<b>": the
\* title is in it with its "<"
MarcadoSinEscapar ==
  /\ Resumido
  /\ \E i \in 1..Len(html_resumen) :
       /\ html_resumen[i].tag = "documento"
       /\ html_resumen[i].text = T_marcado

\* s is a prefix of t
Prefijo(s, t) == Len(s) <= Len(t) /\ SubSeq(t, 1, Len(s)) = s

\* C20 as stated: the history is append-only: after every user action (a
\* turn in any mode, a failed turn, the button "Borrar chat") the history
\* before the action is a prefix of the history after it.
C20_Original == Prefijo(history_antes, history)

\* C20: a chat turn, in any mode and also when it fails, appends to the
\* history the user's message and then the assistant's and changes nothing
\* before them; the button "Borrar chat" leaves the history empty.
C20_SoloTurnosAgregan ==
  /\ accion = "turno" =>
       /\ Prefijo(history_antes, history)
       /\ Len(history) = Len(history_antes) + (IF pc_chat = "idle" THEN 2 ELSE 1)
       /\ history[Len(history_antes) + 1].role = "user"
       /\ pc_chat = "idle" => history[Len(history_antes) + 2].role = "assistant"
  /\ accion = "borrar" => history = <<>>
  /\ accion = "ninguna" => history = <<>>

\* C20 witness: a second turn, which failed, after a first one, in the chat
\* page
C20_Witness ==
  /\ pagina = "chat"
  /\ accion = "turno"
  /\ pc_chat = "idle"
  /\ Len(history_antes) = 2
  /\ Len(history) = 4
  /\ history[4].content \in RespuestasDeFallo

\* the same in app.py
TurnoFallidoApp ==
  /\ pagina = "app"
  /\ accion = "turno"
  /\ Len(history_antes) = 2
  /\ Len(history) = 4
  /\ history[4].content \in RespuestasDeFallo

\* the button was pressed on a history of two turns
BorradoConHistoria ==
  accion = "borrar" /\ Len(history_antes) = 4 /\ history = <<>>

\* the content c gives no text: it is not a str nor a list, it is the empty
\* str, or it is a list whose first block of type text is missing or empty
SinTexto(c) ==
  \/ c.t = "otro"
  \/ c.t = "str" /\ c.s = ""
  \/ /\ c.t = "list"
     /\ LET i == primer_bloque_texto(c.items, 1)
        IN i = 0 \/ c.items[i].text = ""

\* the messages of class AIMessage among ms
SoloAI(ms) == SelectSeq(ms, LAMBDA m : m.tipo = "ai")

\* the response of the model in the last turn was empty or unrecognized: in
\* app.py the response is the last AIMessage the agent produced
RespuestaVacia ==
  \/ llm.t \in {"str", "list", "otro"} /\ SinTexto(llm)
  \/ /\ llm.t = "mensajes"
     /\ \/ SoloAI(llm.items) = <<>>
        \/ SinTexto(SoloAI(llm.items)[Len(SoloAI(llm.items))].content)

\* something failed in the last turn: the data source, the call of the
\* model, or its response
FalloTurno ==
  \/ fuente \in {"error", "excepcion"}
  \/ llm.t = "excepcion"
  \/ RespuestaVacia

\* the texts a failed turn shows: of an error, or of a fallback
TextosDeFallo == RespuestasDeFallo \cup {R_no_pude, R_sin_resultados}

\* the history alternates user and assistant and has even length, and no
\* assistant message is empty
Alterna(h) ==
  /\ Len(h) % 2 = 0
  /\ \A i \in 1..Len(h) :
       /\ h[i].role = (IF i % 2 = 1 THEN "user" ELSE "assistant")
       /\ i % 2 = 0 => h[i].content # ""

\* the last turn added the user's message and then one assistant message
DosEntradas ==
  /\ Len(history) = Len(history_antes) + 2
  /\ SubSeq(history, 1, Len(history_antes)) = history_antes
  /\ history[Len(history) - 1].role = "user"
  /\ history[Len(history) - 1].content \in Preguntas
  /\ history[Len(history)].role = "assistant"
  /\ history[Len(history)].content # ""

\* C21 as stated: a completed turn, in every mode and whatever fails, adds
\* to the history the user's message and then one assistant message that is
\* not empty, which on failure is the text of the error or of the fallback;
\* so the history alternates user and assistant and has even length.
C21_TurnoCompleto ==
  pc_chat = "idle" =>
    /\ Alterna(history)
    /\ accion = "turno" =>
         /\ DosEntradas
         /\ FalloTurno => history[Len(history)].content \in TextosDeFallo

\* C21 without saying which text a failed turn shows
TurnoDosEntradas ==
  pc_chat = "idle" =>
    /\ Alterna(history)
    /\ accion = "turno" => DosEntradas

\* C21 for the chat page alone
TurnoCompletoChat == pagina = "chat" => C21_TurnoCompleto

\* a second turn of app.py in which the agent produced no text: the history
\* gets the answer of the first turn again
RespuestaRepetida ==
  /\ pagina = "app"
  /\ accion = "turno"
  /\ Len(history) = 4
  /\ RespuestaVacia
  /\ history[4].content = R_modelo
  /\ history[2].content = R_modelo

\* a turn of the chat page in which the model raised, after a first turn
TurnoConExcepcion ==
  /\ pagina = "chat"
  /\ pc_chat = "idle"
  /\ accion = "turno"
  /\ llm = Excepcion
  /\ Len(history) = 4
  /\ history[4].content = R_error

\* the answer the content c should give: its text when it is a str, the
\* text of its first block of type text when it is a list, and the fallback
\* when that is empty or missing
TextoEsperado(c) ==
  IF SinTexto(c) THEN R_no_pude
  ELSE IF c.t = "str" THEN c.s
  ELSE c.items[primer_bloque_texto(c.items, 1)].text

\* the last AIMessage the agent produced in the turn
UltimoAI == SoloAI(llm.items)[Len(SoloAI(llm.items))]

\* C22 as stated: the answer of a turn in which the model responded is the
\* text of the response when it is a plain text, the text of the first block
\* of type text when it is a list of blocks (never that of a later block),
\* and "No pude generar una respuesta." when neither gives a text that is
\* not empty.
C22_ExtraccionRespuesta ==
  (accion = "turno" /\ pc_chat = "idle") =>
    /\ llm.t \in {"str", "list", "otro"} =>
         history[Len(history)].content = TextoEsperado(llm)
    /\ (llm.t = "mensajes" /\ SoloAI(llm.items) # <<>>) =>
         history[Len(history)].content = TextoEsperado(UltimoAI.content)

\* C22 for the two extractions of the chat page
ExtraccionChat == pagina = "chat" => C22_ExtraccionRespuesta

\* C22 for app.py when the last AIMessage has a text, or is an empty str
ExtraccionApp ==
  (/\ pagina = "app" /\ accion = "turno"
   /\ llm.t = "mensajes" /\ SoloAI(llm.items) # <<>>
   /\ (~SinTexto(UltimoAI.content) \/ UltimoAI.content.t = "str")) =>
    history[Len(history)].content = TextoEsperado(UltimoAI.content)

\* a list of three blocks, the second and the third of type text: the answer
\* of the turn of the chat page is the text of the second
PrimerBloqueChat ==
  /\ pagina = "chat" /\ pc_chat = "idle" /\ accion = "turno"
  /\ llm.t = "list" /\ Len(llm.items) = 3
  /\ history[Len(history)].content = "a"

\* the same in app.py
PrimerBloqueApp ==
  /\ pagina = "app" /\ accion = "turno"
  /\ llm.t = "mensajes" /\ Len(llm.items) = 1
  /\ Len(llm.items[1].content.items) = 3
  /\ history[Len(history)].content = "a"

\* the run has built the result of lines 304-310 (with "email" or without)
ResultadoDigest == Hecho("resumir") /\ pc \in {"email", "fin"}

RECURSIVE SumaConteos(_, _)
\* the sum of the counts of the "clasificacion" of a result from the i-th on
SumaConteos(cs, i) ==
  IF i > Len(cs) THEN 0 ELSE cs[i].n + SumaConteos(cs, i + 1)

\* C23: every result of generar_digest_completo that is no error result is
\* consistent: total_documentos is the number of extracted documents and the
\* sum of the counts of "clasificacion"; "clasificacion" and
\* "documentos_por_tema" have the same keys in the same order, and each
\* count is the length of the list of documents under the same key.
C23_ResultadoConsistente ==
  ResultadoDigest =>
    LET total == Get(resultado, K_total_documentos, Null)
        cs == Get(resultado, K_clasificacion, Null)
        dpt == Get(resultado, K_documentos_por_tema, Null)
    IN /\ ~HasKey(resultado, K_error)
       /\ total = Len(documentos)
       /\ total = SumaConteos(cs, 1)
       /\ Len(cs) = Len(dpt)
       /\ \A i \in 1..Len(cs) :
            /\ cs[i].tema = dpt[i].tema
            /\ cs[i].n = Len(dpt[i].docs)

\* C23 witness: a returned result with a bucket of more than ten documents
\* and another bucket
C23_Witness ==
  /\ ResultadoDigest
  /\ pc = "fin"
  /\ LET cs == Get(resultado, K_clasificacion, Null)
     IN /\ Len(cs) >= 2
        /\ \E i \in 1..Len(cs) : cs[i].n > MaxPorTema
        /\ Get(resultado, K_total_documentos, Null) = SumaConteos(cs, 1)

\* the positions in TEMAS_BOE of the topics, active or not, with a keyword in
\* the haystack of doc
CoincidentesTodos(doc) ==
  {i \in 1..Len(TEMAS_BOE) :
     AlgunaKeyword(texto_busqueda(doc), TEMAS_BOE[i].keywords)}

\* the filter of this call names at least one topic
FiltroNoVacio == temas_filtro.dado /\ temas_filtro.nombres # <<>>

\* the documents of the bucket of that name, none if there is no such bucket
Cubo(c, tema) ==
  IF \E b \in 1..Len(c) : c[b].tema = tema
  THEN c[CHOOSE b \in 1..Len(c) : c[b].tema = tema].docs
  ELSE <<>>

\* C24: under a filter that is not empty the keys of the classification are
\* names of the filter that are topics of TEMAS_BOE, or "otros"; a document
\* whose haystack has keywords of topics that are not selected only is in
\* "otros", as many times as in the input, and under no other key; and the
\* number of classified documents, the total_documentos of the result, is
\* the same for every filter.
C24_FiltroAcotaClaves ==
  /\ (Clasificado /\ FiltroNoVacio) =>
       /\ \A b \in 1..Len(clasificacion) :
            \/ clasificacion[b].tema = "otros"
            \/ /\ clasificacion[b].tema \in Range(temas_filtro.nombres)
               /\ clasificacion[b].tema \in NombresTemas
       /\ \A k \in 1..Len(documentos) :
            (CoincidentesTodos(documentos[k]) # {} /\ Coincidentes(documentos[k]) = {})
              => /\ Veces(Cubo(clasificacion, "otros"), documentos[k])
                      = Veces(documentos, documentos[k])
                 /\ \A b \in 1..Len(clasificacion) :
                      clasificacion[b].tema # "otros" =>
                        Veces(clasificacion[b].docs, documentos[k]) = 0
  /\ Clasificado =>
       \A f \in Filtros : Suma(clasificar_por_tema(documentos, f), 1) = Len(documentos)
  /\ ResultadoDigest =>
       Get(resultado, K_total_documentos, Null) = Len(extraer_documentos(sumario))

\* C24 witness: under a filter that selects "vivienda", a document of
\* "empleo" is in "otros" next to the bucket of "vivienda"
C24_Witness ==
  /\ Clasificado
  /\ FiltroNoVacio
  /\ \E k \in 1..Len(documentos) :
       /\ CoincidentesTodos(documentos[k]) # {}
       /\ Coincidentes(documentos[k]) = {}
       /\ Veces(Cubo(clasificacion, "otros"), documentos[k]) = 1
  /\ \E b \in 1..Len(clasificacion) : clasificacion[b].tema # "otros"

\* the place of a key in the declaration order: that of the topic in
\* TEMAS_BOE, and after all of them for "otros"
Posicion(tema) ==
  IF tema \in NombresTemas
  THEN CHOOSE i \in 1..Len(TEMAS_BOE) : TEMAS_BOE[i].tema = tema
  ELSE Len(TEMAS_BOE) + 1

\* the keys of a classification in its iteration order
Claves(c) == [b \in 1..Len(c) |-> c[b].tema]

\* the topics of the section headings of the HTML in the order shown
TemasMostrados ==
  LET h == SelectSeq(html_resumen, LAMBDA e : e.tag = "tema")
  IN [i \in 1..Len(h) |-> h[i].tema]

\* C25: the keys of the classification come in the declaration order of
\* TEMAS_BOE with "otros" last, whatever the order of the documents and of
\* the names in the filter; within a bucket the documents are in the order
\* of the input; and the sections of the HTML come in the order of the keys.
C25_OrdenDeclarado ==
  /\ Clasificado =>
       /\ \A a, b \in 1..Len(clasificacion) :
            a < b => Posicion(clasificacion[a].tema) < Posicion(clasificacion[b].tema)
       /\ \A b \in 1..Len(clasificacion) :
            /\ clasificacion[b].tema \in NombresTemas \cup {"otros"}
            /\ clasificacion[b].docs
                 = SelectSeq(documentos,
                             LAMBDA d : Veces(clasificacion[b].docs, d) > 0)
       /\ Claves(clasificar_por_tema(Invertir(documentos), temas_filtro))
            = Claves(clasificacion)
       /\ clasificar_por_tema(documentos,
            [temas_filtro EXCEPT !.nombres = Invertir(@)]) = clasificacion
  /\ Resumido => TemasMostrados = Claves(clasificacion)

\* C25 witness: the first document is in the second bucket, the second
\* document in the first, and the filter names the two topics in the
\* opposite order of their declaration
C25_Witness ==
  /\ Resumido
  /\ Len(documentos) = 2
  /\ Len(clasificacion) = 2
  /\ clasificacion[1].docs = <<documentos[2]>>
  /\ clasificacion[2].docs = <<documentos[1]>>
  /\ Len(temas_filtro.nombres) = 2
  /\ temas_filtro.nombres = <<clasificacion[2].tema, clasificacion[1].tema>>
  /\ TemasMostrados = Claves(clasificacion)

\* a bucket of two different documents, in the order of the input
DosEnUnCubo ==
  /\ Clasificado
  /\ \E b \in 1..Len(clasificacion) :
       /\ Len(clasificacion[b].docs) = 2
       /\ clasificacion[b].docs[1] # clasificacion[b].docs[2]
       /\ clasificacion[b].docs = documentos

\* the run has returned a result that holds the error and no digest
SoloError ==
  /\ pc = "fin"
  /\ ~Hecho("resumir")
  /\ ~HasKey(resultado, K_html)

\* C26 as stated: generar_digest_completo returns a result with the error
\* only if and only if the fetch failed; when the GET answers with a decoded
\* JSON body, whatever it holds, a top-level key "error" included, the run
\* goes through extract, classify and render and the result has "html".
C26_ErrorSoloSiFalla ==
  /\ SoloError <=> (pc = "fin" /\ respuesta = "fallo")
  /\ respuesta = "json" =>
       /\ pc # "excepcion"
       /\ pc = "fin" =>
            /\ Hecho("extraer") /\ Hecho("clasificar") /\ Hecho("resumir")
            /\ HasKey(resultado, K_html)

\* C26 holds of the bodies that are not None and do not hold "error" (as a
\* key of the dict, an element of the list or a piece of the str)
ErrorSoloSinError ==
  (respuesta = "json" => (sumario.t # "null" /\ ~contiene_error(sumario))) =>
    /\ SoloError <=> (pc = "fin" /\ respuesta = "fallo")
    /\ respuesta = "json" =>
         /\ pc # "excepcion"
         /\ pc = "fin" =>
              /\ Hecho("extraer") /\ Hecho("clasificar") /\ Hecho("resumir")
              /\ HasKey(resultado, K_html)

\* a failed fetch has returned the error alone, after one step
FalloDevuelveError ==
  /\ SoloError
  /\ respuesta = "fallo"
  /\ traza = <<"obtener">>
  /\ HasKey(resultado, K_error)

\* a decoded body with a top-level key "error" was returned as the result
CuerpoConClaveError ==
  /\ SoloError
  /\ respuesta = "json"
  /\ sumario.t = "dict"
  /\ HasKey(sumario, K_error)
  /\ resultado = sumario

\* a decoded body without "error" has gone through every step
CuerpoSinErrorSigue ==
  /\ pc = "fin"
  /\ respuesta = "json"
  /\ traza = <<"obtener", "extraer", "clasificar", "resumir", "email">>
  /\ HasKey(resultado, K_html)

====
